---- MODULE Spec2Model ----
(***************************************************************************)
(* The point_light renderer (src/point_light/app.cpp) run by main: Init,    *)
(* MainLoop, DrawFrame, RecreateSwapChain and Destroy on the CPU thread,   *)
(* and the GPU completing submitted command buffers asynchronously (Spec). *)
(* Functions studied on their own inputs: memory-type selection            *)
(* (SpecMemory), swap-chain extent (SpecExtent), requested image count     *)
(* (SpecImageCount), the geometry loader of src/utils/model.cpp            *)
(* (SpecLoadModel), the copy of the materials into the fragment uniform    *)
(* block (SpecMaterials) and the choice of the physical device             *)
(* (SpecDevice).  The per-image resources, the recorded command buffers    *)
(* and their execution are studied in SpecFrame, the binary semaphores of  *)
(* DrawFrame in SpecSemaphores, the sizes of the per-image vectors in      *)
(* SpecVectors, the number of live Vulkan objects in SpecObjects, and the  *)
(* frame loop under fair scheduling in SpecLoop.                           *)
(***************************************************************************)
EXTENDS Integers, Sequences, FiniteSets, TLC

\* constexpr int kMaxFramesInFlight = 3;
kMaxFramesInFlight == 3

\* Largest swap-chain image count the surface may report.
MaxImages == 4

VK_NULL_HANDLE == -1

\* Largest number of `v` lines in a geometry file, and largest magnitude of
\* a face index.
MaxVertices == 5

\* Largest number of `f` lines in a geometry file with several faces.
MaxFaces == 4

\* Width in bits given to uint16_t current_idx and to the uint16_t entries of
\* index_buffer, so that a file of MaxFaces quads takes the counter past its
\* largest value.
IndexBits == 4

\* Largest image count a surface capability report names.
MaxSurfaceImages == 10

\* Largest memoryTypeCount of the device memory-type tables examined.
MaxMemoryTypes == 3

\* Number of VkMemoryPropertyFlags bits examined.
NumPropertyBits == 2

\* Largest number of materials of a loaded model.
MaxMaterials == 22

\* Largest number of mtllib, usemtl and f lines in a geometry file that uses
\* materials.
MaxDirectives == 4

\* Largest number of physical devices vkEnumeratePhysicalDevices reports.
MaxDevices == 2

\* The sentinel width 0xFFFFFFFF of an undefined current extent.  TLC integers
\* end at 2^31 - 1, which stands for it: the function only tests the width
\* for inequality with the sentinel, and it differs from every pixel count
\* examined.
UINT32_MAX == 2147483647

\* std::optional<uint32_t> without a value
nullopt == -1

\* A framebuffer dimension in pixels: 0 (minimized window) or not 0.
FramebufferDims == {0, 1}

Slots == 0..(kMaxFramesInFlight - 1)

\* Image counts below, at and above kMaxFramesInFlight.
ImageCounts == (kMaxFramesInFlight - 1)..MaxImages

\* VkResult values vkAcquireNextImageKHR / vkQueuePresentKHR can return.
VkResults ==
  {"VK_SUCCESS", "VK_SUBOPTIMAL_KHR", "VK_ERROR_OUT_OF_DATE_KHR",
   "VK_ERROR_DEVICE_LOST"}

\* Object groups destroyed and rebuilt by RecreateSwapChain.
SwapChainGroups ==
  {"SwapChain", "SwapChainImageViews", "ScenePassResources",
   "ShadowPassResources", "DescriptorSets", "CommandBuffers"}

\* Objects created by Init that RecreateSwapChain never touches.
PermanentGroups ==
  {"Instance", "Device", "CommandPool", "VertexBuffers", "SyncObjects"}

\* Handles / sizes each creation step reads from earlier steps.
DependsOn(g) ==
  CASE g = "SwapChain"           -> {"Device"}
    [] g = "SwapChainImageViews" -> {"Device", "SwapChain"}
    [] g = "ScenePassResources"  -> {"Device", "SwapChain", "SwapChainImageViews"}
    [] g = "ShadowPassResources" -> {"Device", "SwapChain"}
    [] g = "DescriptorSets"      -> {"Device", "SwapChain", "ScenePassResources",
                                     "ShadowPassResources"}
    [] g = "CommandBuffers"      -> {"Device", "CommandPool", "ScenePassResources"}
    [] g = "Device"              -> {"Instance"}
    [] g = "CommandPool"         -> {"Device"}
    [] g = "VertexBuffers"       -> {"Device", "CommandPool"}
    [] g = "SyncObjects"         -> {"Device"}
    [] OTHER                     -> {}

VARIABLES
  pc,                       \* position of the CPU thread
  framebuffer_resized_,
  current_frame_,
  frame_ready_fences_,      \* slot -> fence is signaled
  image_rendered_fences_,   \* image index + 1 -> slot whose fence is recorded, or VK_NULL_HANDLE
  swap_chain_images_,       \* swap_chain_images_.size()
  image_index,              \* DrawFrame local
  result,                   \* DrawFrame local
  width,                    \* RecreateSwapChain local
  height,                   \* RecreateSwapChain local
  gpu_pending,              \* submissions not yet completed, in submission order
  live,                     \* object groups that currently exist
  recorded,                 \* RecordCommandBuffers succeeded on the current command buffers
  caller,                   \* who runs the create steps: Init, or the DrawFrame
                            \* path that called RecreateSwapChain
  recreate_ret,             \* return value of the last RecreateSwapChain
  draw_ret,                 \* return value of the last DrawFrame
  ops,                      \* operations issued by the current DrawFrame call
  slot0,                    \* current_frame_ when the current DrawFrame call began
  rc_trace,                 \* steps performed by the current RecreateSwapChain call
  init_ret,                 \* return value of App::Init
  init_trace,               \* steps performed by App::Init
  failed_call,              \* the call that failed in the last step run: none, one whose
                            \* result is checked, or CreateBuffer
  exit_code,                \* value returned by main
  args,                     \* arguments of the function under study
  ret,                      \* its return value
  file,                     \* LoadModel: lines of the geometry file
  next_line,                \* LoadModel: line the next std::getline returns
  positions,                \* LoadModel local
  face_pos_indices,         \* LoadModel local
  top_pos_idx,              \* LoadModel local
  current_idx,              \* LoadModel local
  model,                    \* LoadModel local
  load_ret,                 \* return value of LoadModel
  materials,                \* LoadModel local: names of the materials loaded
  mtl_name_to_idx,          \* LoadModel local: pairs <<name, index>>
  mtl_idx,                  \* LoadModel local
  out_model,                \* *out_model: the caller's model
  swap_chain_framebuffers_, \* image index + 1 -> attachments of the scene framebuffer
  shadow_frame_resources_,  \* image index + 1 -> ShadowPassFrameResource
  descriptor_sets_,         \* image index + 1 -> resources written to each binding
  command_buffers_,         \* image index + 1 -> commands recorded
  shadow_layouts,           \* shadow texture -> array layer + 1 -> current image layout
  executing,                \* the submission the queue is executing, and its progress
  frame_log,                \* what the current DrawFrame call acquired, submitted, presented
  image_ready_semaphores_,  \* slot -> semaphore is signaled
  render_complete_semaphores_ \* slot -> semaphore is signaled

appVars ==
  <<framebuffer_resized_, current_frame_,
    frame_ready_fences_, image_rendered_fences_, swap_chain_images_,
    image_index, result, width, height, gpu_pending, live, recorded,
    caller, recreate_ret, draw_ret, ops, slot0, rc_trace, init_ret,
    init_trace, failed_call, exit_code>>

callVars == <<args, ret>>

loadVars ==
  <<file, next_line, positions, face_pos_indices, top_pos_idx, current_idx,
    model, load_ret, materials, mtl_name_to_idx, mtl_idx, out_model>>

frameVars ==
  <<swap_chain_framebuffers_, shadow_frame_resources_, descriptor_sets_,
    command_buffers_, shadow_layouts, executing, frame_log>>

semVars == <<image_ready_semaphores_, render_complete_semaphores_>>

pureVars == <<callVars, loadVars, frameVars, semVars>>

vars == <<pc, appVars, pureVars>>

syncVars   == <<frame_ready_fences_, image_rendered_fences_>>
localVars  == <<image_index, result>>
sizeVars   == <<width, height>>
objVars    == <<swap_chain_images_, live, recorded>>
retVars    == <<recreate_ret, draw_ret>>
mainVars   == <<init_ret, init_trace, exit_code>>

----------------------------------------------------------------------------
\* Helpers

\* Variant: resize never removes elements.
Resize_GrowOnly(v, n, value) ==
  IF n <= Len(v) THEN v
  ELSE [i \in 1..n |-> IF i <= Len(v) THEN v[i] ELSE value]

\* std::vector::resize(n, value)
Resize(v, n, value) ==
  [i \in 1..n |-> IF i <= Len(v) THEN v[i] ELSE value]

Range(s) == {s[i] : i \in 1..Len(s)}

\* Every object DrawFrame uses exists and the command buffers are recorded.
Built == (SwapChainGroups \cup PermanentGroups) \subseteq live /\ recorded

\* Variant: the wait does not block (timeout 0 instead of UINT64_MAX).
FenceWaitReturns_NoWait(slot) == TRUE

\* vkWaitForFences(..., UINT64_MAX) on a slot fence returns.
FenceWaitReturns(slot) == frame_ready_fences_[slot]

\* Object groups whose handles (or vectors) each call reads.
Uses(call) ==
  CASE call = "Acquire" -> {"Device", "SwapChain", "SyncObjects"}
    [] call = "Submit"  -> SwapChainGroups \cup PermanentGroups
    [] call = "Present" -> {"Device", "SwapChain", "SyncObjects"}
    [] call = "DestroyDescriptorSets"      -> {"Device", "DescriptorSets"}
    [] call = "DestroyCommandBuffers"      -> {"Device", "CommandPool", "CommandBuffers"}
    [] call = "DestroyShadowPassResources" -> {"Device", "ShadowPassResources"}
    [] call = "DestroyScenePassResources"  -> {"Device", "ScenePassResources"}
    [] call = "DestroySwapChainImageViews" -> {"Device", "SwapChainImageViews"}
    [] call = "DestroySwapChain"           -> {"Device", "SwapChain"}
    [] call = "Destroy" -> SwapChainGroups \cup PermanentGroups
    [] OTHER -> {}

\* The call at this position is valid: every object it uses exists, a
\* submitted command buffer is recorded, and image_index is inside
\* image_rendered_fences_.
ValidCall(call) ==
  /\ Uses(call) \subseteq live
  /\ call = "Submit" => recorded
  /\ call = "WaitImageRendered" => image_index < Len(image_rendered_fences_)

\* Variant: the vkDeviceWaitIdle call is missing.
DeviceWaitIdleReturns_NoWait == TRUE

\* vkDeviceWaitIdle returns.
DeviceWaitIdleReturns == gpu_pending = <<>>

\* struct Model: four parallel vectors and the materials.
EmptyModel ==
  [positions |-> <<>>, normals |-> <<>>, material_indices |-> <<>>,
   index_buffer |-> <<>>, materials |-> <<>>]

\* No function is under study.
NoCall ==
  /\ args = <<>>
  /\ ret = <<>>

\* LoadModel is not running.
NoLoad ==
  /\ file = <<>>
  /\ next_line = 1
  /\ positions = <<>>
  /\ face_pos_indices = <<>>
  /\ top_pos_idx = 0
  /\ current_idx = 0
  /\ model = EmptyModel
  /\ load_ret = "none"
  /\ materials = <<>>
  /\ mtl_name_to_idx = {}
  /\ mtl_idx = 0
  /\ out_model = EmptyModel

\* No scene or shadow resource is built and nothing is recorded or executing.
NoFrame ==
  /\ swap_chain_framebuffers_ = <<>>
  /\ shadow_frame_resources_ = <<>>
  /\ descriptor_sets_ = <<>>
  /\ command_buffers_ = <<>>
  /\ shadow_layouts = <<>>
  /\ executing = <<>>
  /\ frame_log = <<>>

\* The semaphores are not under study.
NoSemaphores ==
  /\ image_ready_semaphores_ = <<>>
  /\ render_complete_semaphores_ = <<>>

\* The App object as constructed by main, before App::Init.
AppConstructed ==
  /\ framebuffer_resized_ = FALSE
  /\ current_frame_ = 0
  /\ frame_ready_fences_ = <<>>
  /\ swap_chain_images_ = 0
  /\ image_rendered_fences_ = <<>>
  /\ image_index = VK_NULL_HANDLE
  /\ result = "NONE"
  /\ width = 0
  /\ height = 0
  /\ gpu_pending = <<>>
  /\ live = {}
  /\ recorded = FALSE
  /\ caller = "init"
  /\ recreate_ret = "none"
  /\ draw_ret = "none"
  /\ ops = <<>>
  /\ slot0 = 0
  /\ rc_trace = <<>>
  /\ init_ret = "none"
  /\ init_trace = <<>>
  /\ failed_call = "none"
  /\ exit_code = "none"

\* Init state: main has constructed the App and is about to call App::Init.
Init ==
  /\ pc = "Init"
  /\ AppConstructed
  /\ NoCall
  /\ NoLoad
  /\ NoFrame
  /\ NoSemaphores


----------------------------------------------------------------------------
\* Window system (GLFW)

\* void App::GlfwFramebufferResized(...)
GlfwFramebufferResized == framebuffer_resized_' = TRUE

\* glfwPollEvents / glfwWaitEvents: pending events are delivered; the resize
\* callback runs when a framebuffer-size event is among them.
DeliverEvents ==
  \E resized \in BOOLEAN :
    IF resized
      THEN GlfwFramebufferResized
      ELSE UNCHANGED framebuffer_resized_

----------------------------------------------------------------------------
\* GPU

\* The oldest submitted command buffer finishes executing and its fence is
\* signaled (fences of one queue signal in submission order).
GpuComplete ==
  /\ gpu_pending # <<>>
  /\ frame_ready_fences_' =
       [frame_ready_fences_ EXCEPT ![Head(gpu_pending).fence] = TRUE]
  /\ gpu_pending' = Tail(gpu_pending)
  /\ UNCHANGED <<pc, framebuffer_resized_, current_frame_,
                 image_rendered_fences_, localVars, sizeVars, objVars,
                 caller, retVars, ops, slot0, rc_trace>>
  /\ UNCHANGED <<mainVars, failed_call, pureVars>>

----------------------------------------------------------------------------
\* MainLoop

\* DrawFrame returned false: MainLoop breaks out of its loop.
DrawFrameReturnsFalse ==
  /\ draw_ret' = "false"
  /\ image_index' = VK_NULL_HANDLE
  /\ pc' = "MainLoopWaitIdle"

\* DrawFrame returned true: MainLoop evaluates its loop condition again.
DrawFrameReturnsTrue ==
  /\ draw_ret' = "true"
  /\ image_index' = VK_NULL_HANDLE
  /\ pc' = "MainLoop"

\* The record of the last DrawFrame call is dropped.
ForgetLastFrame ==
  /\ result' = "NONE"
  /\ caller' = "none"
  /\ failed_call' = "none"
  /\ recreate_ret' = "none"
  /\ ops' = <<>>
  /\ slot0' = current_frame_
  /\ rc_trace' = <<>>

\* while (!glfwWindowShouldClose(window_)) { glfwPollEvents(); DrawFrame() ...
MainLoop ==
  /\ pc = "MainLoop"
  /\ \E window_should_close \in BOOLEAN :
     IF window_should_close
       THEN /\ pc' = "MainLoopWaitIdle"
            /\ ForgetLastFrame
            /\ UNCHANGED <<framebuffer_resized_, draw_ret>>
       ELSE /\ DeliverEvents
            /\ pc' = "WaitFrameReady"
            /\ ForgetLastFrame
            /\ draw_ret' = "none"
  /\ UNCHANGED <<current_frame_, syncVars, image_index, sizeVars,
                 gpu_pending, objVars>>
  /\ UNCHANGED <<mainVars, pureVars>>

\* vkDeviceWaitIdle(device_) after the loop
MainLoopWaitIdle ==
  /\ pc = "MainLoopWaitIdle"
  /\ DeviceWaitIdleReturns
  /\ pc' = "Destroy"
  /\ ForgetLastFrame
  /\ UNCHANGED <<framebuffer_resized_, current_frame_, syncVars, image_index,
                 sizeVars, gpu_pending, objVars, draw_ret>>
  /\ UNCHANGED <<mainVars, pureVars>>

\* void App::Destroy()
Destroy ==
  /\ pc = "Destroy"
  /\ ValidCall("Destroy")
  /\ live' = {}
  /\ recorded' = FALSE
  /\ pc' = "done"
  /\ UNCHANGED <<framebuffer_resized_, current_frame_, syncVars,
                 swap_chain_images_, localVars, sizeVars, gpu_pending, caller,
                 retVars, ops, slot0, rc_trace>>
  /\ UNCHANGED <<mainVars, failed_call, pureVars>>

----------------------------------------------------------------------------
\* DrawFrame

\* vkWaitForFences(&frame_ready_fences_[current_frame_])
WaitFrameReady ==
  /\ pc = "WaitFrameReady"
  /\ FenceWaitReturns(current_frame_)
  /\ pc' = "Acquire"
  /\ ops' = Append(ops, "wait_frame")
  /\ UNCHANGED <<framebuffer_resized_, current_frame_, syncVars,
                 localVars, sizeVars, gpu_pending, objVars, caller, retVars,
                 slot0, rc_trace>>
  /\ UNCHANGED <<mainVars, failed_call, pureVars>>

\* Variant: the VK_ERROR_OUT_OF_DATE_KHR check is missing.
AcquireOutOfDate_Never(r) == FALSE

\* result == VK_ERROR_OUT_OF_DATE_KHR
AcquireOutOfDate(r) == r = "VK_ERROR_OUT_OF_DATE_KHR"

\* Variant: only VK_SUCCESS is accepted.
AcquireFailed_Strict(r) == r # "VK_SUCCESS"

\* Variant: no result of the acquisition is treated as a failure.
AcquireFailed_Never(r) == FALSE

\* result != VK_SUCCESS && result != VK_SUBOPTIMAL_KHR
AcquireFailed(r) == r # "VK_SUCCESS" /\ r # "VK_SUBOPTIMAL_KHR"

\* vkAcquireNextImageKHR and the checks on its result
Acquire ==
  /\ pc = "Acquire"
  /\ ValidCall("Acquire")
  /\ \E r \in VkResults, k \in 0..(swap_chain_images_ - 1) :
       /\ result' = r
       /\ ops' = Append(ops, "acquire")
       /\ IF AcquireOutOfDate(r)
            THEN /\ caller' = "acquire"
                 /\ pc' = "RecreateSwapChain"
                 /\ UNCHANGED <<image_index, draw_ret>>
            ELSE IF AcquireFailed(r)
            THEN /\ DrawFrameReturnsFalse
                 /\ UNCHANGED caller
            ELSE /\ image_index' = k
                 /\ pc' = "WaitImageRendered"
                 /\ UNCHANGED <<caller, draw_ret>>
  /\ UNCHANGED <<framebuffer_resized_, current_frame_, syncVars,
                 sizeVars, gpu_pending, objVars, recreate_ret, slot0,
                 rc_trace>>
  /\ UNCHANGED <<mainVars, failed_call, pureVars>>

\* Variant: the wait on the image's recorded fence is missing.
ImageFenceWaitReturns_NoWait(f) == TRUE

\* if (image_rendered_fences_[image_index] != VK_NULL_HANDLE) vkWaitForFences(...)
ImageFenceWaitReturns(f) ==
  IF f = VK_NULL_HANDLE THEN TRUE ELSE FenceWaitReturns(f)

\* image_rendered_fences_[image_index] = frame_ready_fences_[current_frame_]
AssociateImageFence(k, slot) ==
  [image_rendered_fences_ EXCEPT ![k + 1] = slot]

\* wait on the image's recorded fence, associate the slot fence, vkResetFences
WaitImageRendered ==
  /\ pc = "WaitImageRendered"
  /\ ValidCall("WaitImageRendered")
  /\ ImageFenceWaitReturns(image_rendered_fences_[image_index + 1])
  /\ image_rendered_fences_' = AssociateImageFence(image_index, current_frame_)
  /\ frame_ready_fences_' = [frame_ready_fences_ EXCEPT ![current_frame_] = FALSE]
  /\ pc' = "Submit"
  /\ ops' = ops \o <<"wait_image", "associate", "reset">>
  /\ UNCHANGED <<framebuffer_resized_, current_frame_, localVars,
                 sizeVars, gpu_pending, objVars, caller, retVars, slot0,
                 rc_trace>>
  /\ UNCHANGED <<mainVars, failed_call, pureVars>>

\* vkQueueSubmit(graphics_queue_, ..., frame_ready_fences_[current_frame_])
Submit ==
  /\ pc = "Submit"
  /\ ValidCall("Submit")
  /\ \E ok \in BOOLEAN :
       IF ok
         THEN /\ gpu_pending' = Append(gpu_pending,
                   [fence |-> current_frame_, cmd |-> image_index])
              /\ ops' = Append(ops, "submit")
              /\ pc' = "Present"
              /\ UNCHANGED <<draw_ret, image_index>>
         ELSE /\ ops' = Append(ops, "submit_failed")
              /\ DrawFrameReturnsFalse
              /\ UNCHANGED gpu_pending
  /\ UNCHANGED <<framebuffer_resized_, current_frame_, syncVars, result,
                 sizeVars, objVars, caller, recreate_ret, slot0, rc_trace>>
  /\ UNCHANGED <<mainVars, failed_call, pureVars>>

\* Variant: VK_SUBOPTIMAL_KHR does not trigger recreation.
PresentNeedsRecreate_NoSuboptimal(r, resized) ==
  r = "VK_ERROR_OUT_OF_DATE_KHR" \/ resized

\* Variant: the resize flag is not tested.
PresentNeedsRecreate_IgnoreResized(r, resized) ==
  r = "VK_ERROR_OUT_OF_DATE_KHR" \/ r = "VK_SUBOPTIMAL_KHR"

\* result == OUT_OF_DATE || result == SUBOPTIMAL || framebuffer_resized_
PresentNeedsRecreate(r, resized) ==
  r = "VK_ERROR_OUT_OF_DATE_KHR" \/ r = "VK_SUBOPTIMAL_KHR" \/ resized

\* Variant: the modulo is missing.
NextFrame_NoWrap(f) == f + 1

\* current_frame_ = (current_frame_ + 1) % kMaxFramesInFlight
NextFrame(f) == (f + 1) % kMaxFramesInFlight

\* vkQueuePresentKHR and the checks on its result
Present ==
  /\ pc = "Present"
  /\ ValidCall("Present")
  /\ \E r \in VkResults :
       /\ result' = r
       /\ IF PresentNeedsRecreate(r, framebuffer_resized_)
            THEN /\ framebuffer_resized_' = FALSE
                 /\ caller' = "present"
                 /\ pc' = "RecreateSwapChain"
                 /\ ops' = Append(ops, "present")
                 /\ UNCHANGED <<current_frame_, draw_ret, image_index>>
            ELSE IF r # "VK_SUCCESS"
            THEN /\ DrawFrameReturnsFalse
                 /\ ops' = Append(ops, "present")
                 /\ UNCHANGED <<framebuffer_resized_, caller, current_frame_>>
            ELSE /\ current_frame_' = NextFrame(current_frame_)
                 /\ DrawFrameReturnsTrue
                 /\ ops' = ops \o <<"present", "advance">>
                 /\ UNCHANGED <<framebuffer_resized_, caller>>
  /\ UNCHANGED <<syncVars, sizeVars, gpu_pending, objVars, recreate_ret,
                 slot0, rc_trace>>
  /\ UNCHANGED <<mainVars, failed_call, pureVars>>

\* The call at the current position uses an object that a failed rebuild
\* left destroyed or unrecorded, or indexes past the end of a vector: the
\* behaviour of the program is undefined from here on.
InvalidUsage ==
  /\ ~ValidCall(pc)
  /\ pc' = "undefined"
  /\ UNCHANGED <<framebuffer_resized_, current_frame_, syncVars,
                 localVars, sizeVars, gpu_pending, objVars, caller, retVars,
                 ops, slot0, rc_trace>>
  /\ UNCHANGED <<mainVars, failed_call, pureVars>>

----------------------------------------------------------------------------
\* RecreateSwapChain

\* Variant: the swap chain is destroyed before the scene-pass resources.
RecreateOrder_SwapChainFirst ==
  <<"DestroyDescriptorSets", "DestroyCommandBuffers",
    "DestroyShadowPassResources",
    "DestroySwapChainImageViews", "DestroySwapChain",
    "DestroyScenePassResources",
    "CreateSwapChain", "CreateScenePassResources",
    "CreateShadowPassResources", "CreateDescriptorSets",
    "CreateCommandBuffers", "RecordCommandBuffers">>

\* The calls RecreateSwapChain makes after vkDeviceWaitIdle, in source order.
\* DestroySwapChain is its two halves: the image views, then the swap chain.
RecreateOrder ==
  <<"DestroyDescriptorSets", "DestroyCommandBuffers",
    "DestroyShadowPassResources", "DestroyScenePassResources",
    "DestroySwapChainImageViews", "DestroySwapChain",
    "CreateSwapChain", "CreateScenePassResources",
    "CreateShadowPassResources", "CreateDescriptorSets",
    "CreateCommandBuffers", "RecordCommandBuffers">>

IndexOf(step) == CHOOSE i \in 1..Len(RecreateOrder) : RecreateOrder[i] = step

\* The statement that follows a call of RecreateSwapChain.
RcNext(step) ==
  IF IndexOf(step) = Len(RecreateOrder)
    THEN "ResizeImageRenderedFences"
    ELSE RecreateOrder[IndexOf(step) + 1]

\* RecreateSwapChain returns; both call sites in DrawFrame ignore the value
\* and `return true`.
RecreateReturns(value) ==
  /\ recreate_ret' = value
  /\ width' = 0
  /\ height' = 0
  /\ DrawFrameReturnsTrue

\* glfwGetFramebufferSize(window_, &width, &height)
GetFramebufferSize ==
  /\ width' \in FramebufferDims
  /\ height' \in FramebufferDims

\* Variant: the loop runs only while both dimensions are zero.
SizeIsZero_Both(w, h) == w = 0 /\ h = 0

\* width == 0 || height == 0
SizeIsZero(w, h) == w = 0 \/ h = 0

\* int width = 0, height = 0; glfwGetFramebufferSize(window_, &width, &height);
RecreateSwapChain ==
  /\ pc = "RecreateSwapChain"
  /\ GetFramebufferSize
  /\ rc_trace' = <<>>
  /\ ops' = Append(ops, "recreate")
  /\ pc' = "RecreateSizeLoop"
  /\ UNCHANGED <<framebuffer_resized_, current_frame_, syncVars,
                 localVars, gpu_pending, objVars, caller, retVars, slot0>>
  /\ UNCHANGED <<mainVars, failed_call, pureVars>>

\* while (width == 0 || height == 0) { glfwGetFramebufferSize; glfwWaitEvents; }
RecreateSizeLoop ==
  /\ pc = "RecreateSizeLoop"
  /\ IF SizeIsZero(width, height)
       THEN /\ GetFramebufferSize
            /\ DeliverEvents
            /\ UNCHANGED pc
       ELSE /\ pc' = "RecreateWaitIdle"
            /\ UNCHANGED <<sizeVars, framebuffer_resized_>>
  /\ UNCHANGED <<current_frame_, syncVars, localVars, gpu_pending, objVars,
                 caller, retVars, ops, slot0, rc_trace>>
  /\ UNCHANGED <<mainVars, failed_call, pureVars>>

\* vkDeviceWaitIdle(device_) in RecreateSwapChain
RecreateWaitIdle ==
  /\ pc = "RecreateWaitIdle"
  /\ DeviceWaitIdleReturns
  /\ pc' = RecreateOrder[1]
  /\ rc_trace' = Append(rc_trace, "vkDeviceWaitIdle")
  /\ UNCHANGED <<framebuffer_resized_, current_frame_, syncVars,
                 localVars, sizeVars, gpu_pending, objVars, caller, retVars,
                 ops, slot0>>
  /\ UNCHANGED <<mainVars, failed_call, pureVars>>

\* A destroy call of RecreateSwapChain: the groups stop existing.
RcDestroy(step, groups) ==
  /\ pc = step
  /\ ValidCall(step)
  /\ live' = live \ groups
  /\ recorded' = (recorded /\ "CommandBuffers" \notin groups)
  /\ rc_trace' = Append(rc_trace, step)
  /\ pc' = RcNext(step)
  /\ UNCHANGED <<framebuffer_resized_, current_frame_, syncVars,
                 swap_chain_images_, localVars, sizeVars, gpu_pending, caller,
                 retVars, ops, slot0>>
  /\ UNCHANGED <<mainVars, failed_call, pureVars>>

\* void App::DestroyDescriptorSets()
DestroyDescriptorSets == RcDestroy("DestroyDescriptorSets", {"DescriptorSets"})

\* void App::DestroyCommandBuffers()
DestroyCommandBuffers == RcDestroy("DestroyCommandBuffers", {"CommandBuffers"})

\* void App::DestroyShadowPassResources()
DestroyShadowPassResources ==
  RcDestroy("DestroyShadowPassResources", {"ShadowPassResources"})

\* void App::DestroyScenePassResources()
DestroyScenePassResources ==
  RcDestroy("DestroyScenePassResources", {"ScenePassResources"})

\* void App::DestroySwapChain(): the loop over swap_chain_image_views_
DestroySwapChainImageViews ==
  RcDestroy("DestroySwapChainImageViews", {"SwapChainImageViews"})

\* Variant: the swap chain is destroyed together with the command pool.
DestroySwapChain_WithCommandPool ==
  RcDestroy("DestroySwapChain", {"SwapChain", "CommandPool"})

\* void App::DestroySwapChain(): vkDestroySwapchainKHR
DestroySwapChain == RcDestroy("DestroySwapChain", {"SwapChain"})

\* Variant: the descriptor sets are created before the command buffers.
InitOrder_DescriptorSetsFirst ==
  <<"LoadModel", "InitInstanceAndSurface", "ChoosePhysicalDevice",
    "CreateDevice", "CreateSwapChain", "CreateScenePassResources",
    "CreateShadowPassResources", "CreateCommandPool", "CreateDescriptorSets",
    "CreateCommandBuffers", "CreateVertexBuffers", "RecordCommandBuffers",
    "CreateSyncObjects">>

\* The steps of App::Init, in source order.
InitOrder ==
  <<"LoadModel", "InitInstanceAndSurface", "ChoosePhysicalDevice",
    "CreateDevice", "CreateSwapChain", "CreateScenePassResources",
    "CreateShadowPassResources", "CreateCommandPool", "CreateCommandBuffers",
    "CreateDescriptorSets", "CreateVertexBuffers", "RecordCommandBuffers",
    "CreateSyncObjects">>

InitIndexOf(step) == CHOOSE i \in 1..Len(InitOrder) : InitOrder[i] = step

\* The statement that follows a successful step of Init.
InitNext(step) ==
  IF InitIndexOf(step) = Len(InitOrder)
    THEN "InitReturnsTrue"
    ELSE InitOrder[InitIndexOf(step) + 1]

\* App::Init returns to main.
InitReturns(value) ==
  /\ init_ret' = value
  /\ pc' = "MainAfterInit"

\* The step is appended to the record of the function that runs it.
Traced(step) ==
  IF caller = "init"
    THEN /\ init_trace' = Append(init_trace, step)
         /\ UNCHANGED rc_trace
    ELSE /\ rc_trace' = Append(rc_trace, step)
         /\ UNCHANGED init_trace

\* The statement that follows a successful step, in Init or in
\* RecreateSwapChain.
StepAfter(step) ==
  IF caller = "init" THEN InitNext(step) ELSE RcNext(step)

\* if (!Step()) return false;  in Init or in RecreateSwapChain
StepReturnsFalse ==
  IF caller = "init"
    THEN /\ InitReturns("false")
         /\ UNCHANGED <<retVars, image_index, sizeVars>>
    ELSE /\ RecreateReturns("false")
         /\ UNCHANGED init_ret

\* The step goes on to its next statement or returns true.
StepContinues(step) ==
  /\ pc' = StepAfter(step)
  /\ UNCHANGED <<retVars, image_index, sizeVars, init_ret, failed_call>>

\* A CreateBuffer call returned false and the value was dropped: the
\* statements that follow map, copy into or bind a buffer that does not
\* exist or has no memory.
CreateBufferFailureIgnored ==
  /\ failed_call' = "CreateBuffer"
  /\ pc' = "undefined"
  /\ UNCHANGED <<retVars, image_index, sizeVars, init_ret>>

\* A step of Init or RecreateSwapChain that creates object groups.  Outcomes:
\* every call succeeds; a call whose result is tested fails and the step
\* returns false; a CreateBuffer call, whose result is not tested, fails.
CreateStep(step, groups, outcomes) ==
  /\ pc = step
  /\ Traced(step)
  /\ \E outcome \in outcomes :
       CASE outcome = "ok" ->
              /\ live' = live \cup groups
              /\ StepContinues(step)
         [] outcome = "failed" ->
              /\ failed_call' = "checked"
              /\ StepReturnsFalse
              /\ UNCHANGED live
         [] outcome = "buffer_failed" ->
              /\ CreateBufferFailureIgnored
              /\ UNCHANGED live
  /\ UNCHANGED <<framebuffer_resized_, current_frame_, syncVars,
                 swap_chain_images_, recorded, result,
                 gpu_pending, caller, ops, slot0, exit_code, pureVars>>

\* bool App::CreateSwapChain(): vkCreateSwapchainKHR may fail; otherwise
\* swap_chain_images_ is resized to the count the swap chain reports and one
\* image view per image is created, which may fail too.
CreateSwapChain ==
  /\ pc = "CreateSwapChain"
  /\ Traced("CreateSwapChain")
  /\ \E outcome \in {"swapchain_failed", "image_view_failed", "ok"},
        n \in ImageCounts :
       CASE outcome = "swapchain_failed" ->
              /\ failed_call' = "checked"
              /\ StepReturnsFalse
              /\ UNCHANGED <<live, swap_chain_images_>>
         [] outcome = "image_view_failed" ->
              /\ live' = live \cup {"SwapChain"}
              /\ swap_chain_images_' = n
              /\ failed_call' = "checked"
              /\ StepReturnsFalse
         [] outcome = "ok" ->
              /\ live' = live \cup {"SwapChain", "SwapChainImageViews"}
              /\ swap_chain_images_' = n
              /\ StepContinues("CreateSwapChain")
  /\ UNCHANGED <<framebuffer_resized_, current_frame_, syncVars,
                 recorded, result, gpu_pending, caller, ops,
                 slot0, exit_code, pureVars>>

\* bool App::CreateScenePassResources()
CreateScenePassResources ==
  CreateStep("CreateScenePassResources", {"ScenePassResources"},
             {"ok", "failed"})

\* bool App::CreateShadowPassResources()
CreateShadowPassResources ==
  CreateStep("CreateShadowPassResources", {"ShadowPassResources"},
             {"ok", "failed"})

\* bool App::CreateDescriptorSets(): the results of the two CreateBuffer calls
\* for the uniform buffers are not tested.
CreateDescriptorSets ==
  CreateStep("CreateDescriptorSets", {"DescriptorSets"},
             {"ok", "failed", "buffer_failed"})

\* bool App::CreateCommandBuffers()
CreateCommandBuffers ==
  CreateStep("CreateCommandBuffers", {"CommandBuffers"}, {"ok", "failed"})

\* bool App::RecordCommandBuffers()
RecordCommandBuffers ==
  /\ pc = "RecordCommandBuffers"
  /\ Traced("RecordCommandBuffers")
  /\ \E ok \in BOOLEAN :
       IF ok
         THEN /\ recorded' = TRUE
              /\ StepContinues("RecordCommandBuffers")
         ELSE /\ failed_call' = "checked"
              /\ StepReturnsFalse
              /\ UNCHANGED recorded
  /\ UNCHANGED <<framebuffer_resized_, current_frame_, syncVars,
                 swap_chain_images_, live, result, gpu_pending,
                 caller, ops, slot0, exit_code, pureVars>>

\* image_rendered_fences_.resize(swap_chain_images_.size(), VK_NULL_HANDLE);
\* return true;
ResizeImageRenderedFences ==
  /\ pc = "ResizeImageRenderedFences"
  /\ image_rendered_fences_' =
       Resize(image_rendered_fences_, swap_chain_images_, VK_NULL_HANDLE)
  /\ RecreateReturns("true")
  /\ UNCHANGED <<framebuffer_resized_, current_frame_,
                 frame_ready_fences_, result, gpu_pending,
                 objVars, caller, ops, slot0, rc_trace>>
  /\ UNCHANGED <<mainVars, failed_call, pureVars>>

----------------------------------------------------------------------------
\* Init and main

\* bool App::Init(): glfwInit, window creation, callbacks
AppInit ==
  /\ pc = "Init"
  /\ pc' = InitOrder[1]
  /\ UNCHANGED <<framebuffer_resized_, current_frame_, syncVars, localVars,
                 sizeVars, gpu_pending, objVars, caller, retVars, ops, slot0,
                 rc_trace, mainVars, failed_call, pureVars>>

\* utils::LoadModel("cornell_box.obj", &model_)
LoadModel == CreateStep("LoadModel", {}, {"ok", "failed"})

\* bool App::InitInstanceAndSurface()
InitInstanceAndSurface ==
  CreateStep("InitInstanceAndSurface", {"Instance"}, {"ok", "failed"})

\* bool App::ChoosePhysicalDevice()
ChoosePhysicalDevice == CreateStep("ChoosePhysicalDevice", {}, {"ok", "failed"})

\* bool App::CreateDevice()
CreateDevice == CreateStep("CreateDevice", {"Device"}, {"ok", "failed"})

\* bool App::CreateCommandPool()
CreateCommandPool ==
  CreateStep("CreateCommandPool", {"CommandPool"}, {"ok", "failed"})

\* bool App::CreateVertexBuffers(): the results of its CreateBuffer calls and
\* of those in UploadDataToBuffer are not tested; it always returns true.
CreateVertexBuffers ==
  CreateStep("CreateVertexBuffers", {"VertexBuffers"}, {"ok", "buffer_failed"})

\* Variant: the fences are created unsignaled.
CreatedFences_Unsignaled == [s \in Slots |-> FALSE]

\* fence_info.flags = VK_FENCE_CREATE_SIGNALED_BIT: each slot fence starts
\* signaled.
CreatedFences == [s \in Slots |-> TRUE]

\* bool App::CreateSyncObjects(): the fences are created signaled
CreateSyncObjects ==
  /\ pc = "CreateSyncObjects"
  /\ Traced("CreateSyncObjects")
  /\ image_rendered_fences_' =
       Resize(image_rendered_fences_, swap_chain_images_, VK_NULL_HANDLE)
  /\ \E ok \in BOOLEAN :
       IF ok
         THEN /\ frame_ready_fences_' = CreatedFences
              /\ live' = live \cup {"SyncObjects"}
              /\ StepContinues("CreateSyncObjects")
         ELSE /\ failed_call' = "checked"
              /\ StepReturnsFalse
              /\ UNCHANGED <<frame_ready_fences_, live>>
  /\ UNCHANGED <<framebuffer_resized_, current_frame_, swap_chain_images_,
                 recorded, result, gpu_pending, caller, ops, slot0,
                 exit_code, pureVars>>

\* return true;  at the end of App::Init
InitReturnsTrue ==
  /\ pc = "InitReturnsTrue"
  /\ InitReturns("true")
  /\ UNCHANGED <<framebuffer_resized_, current_frame_, syncVars, localVars,
                 sizeVars, gpu_pending, objVars, caller, retVars, ops, slot0,
                 rc_trace, init_trace, exit_code, failed_call, pureVars>>

\* return -1;
InitFailedExitCode == -1

\* Variant: main never takes the failure branch.
InitFailed_Never(r) == FALSE

\* if (!app.Init())
InitFailed(r) == r = "false"

\* if (!app.Init()) { ...; return -1; }  app.MainLoop();
MainAfterInit ==
  /\ pc = "MainAfterInit"
  /\ IF InitFailed(init_ret)
       THEN /\ exit_code' = InitFailedExitCode
            /\ pc' = "exit"
       ELSE /\ pc' = "MainLoop"
            /\ UNCHANGED exit_code
  /\ UNCHANGED <<framebuffer_resized_, current_frame_, syncVars, localVars,
                 sizeVars, gpu_pending, objVars, caller, retVars, ops, slot0,
                 rc_trace, init_ret, init_trace, failed_call, pureVars>>

\* return 0;  after app.Destroy()
MainReturn ==
  /\ pc = "done"
  /\ exit_code' = 0
  /\ pc' = "exit"
  /\ UNCHANGED <<framebuffer_resized_, current_frame_, syncVars, localVars,
                 sizeVars, gpu_pending, objVars, caller, retVars, ops, slot0,
                 rc_trace, init_ret, init_trace, failed_call, pureVars>>

----------------------------------------------------------------------------

Next ==
  \/ AppInit
  \/ LoadModel
  \/ InitInstanceAndSurface
  \/ ChoosePhysicalDevice
  \/ CreateDevice
  \/ CreateCommandPool
  \/ CreateVertexBuffers
  \/ CreateSyncObjects
  \/ InitReturnsTrue
  \/ MainAfterInit
  \/ MainReturn
  \/ GpuComplete
  \/ MainLoop
  \/ MainLoopWaitIdle
  \/ Destroy
  \/ WaitFrameReady
  \/ Acquire
  \/ WaitImageRendered
  \/ Submit
  \/ Present
  \/ InvalidUsage
  \/ RecreateSwapChain
  \/ RecreateSizeLoop
  \/ RecreateWaitIdle
  \/ DestroyDescriptorSets
  \/ DestroyCommandBuffers
  \/ DestroyShadowPassResources
  \/ DestroyScenePassResources
  \/ DestroySwapChainImageViews
  \/ DestroySwapChain
  \/ CreateSwapChain
  \/ CreateScenePassResources
  \/ CreateShadowPassResources
  \/ CreateDescriptorSets
  \/ CreateCommandBuffers
  \/ RecordCommandBuffers
  \/ ResizeImageRenderedFences

Spec == Init /\ [][Next]_vars

----------------------------------------------------------------------------
\* AllocateMemoryForResource (src/point_light/app.cpp, src/utils/vk.cpp)

\* a & b on unsigned integers
RECURSIVE BitAnd(_, _)
BitAnd(a, b) ==
  IF a = 0 \/ b = 0
    THEN 0
    ELSE (a % 2) * (b % 2) + 2 * BitAnd(a \div 2, b \div 2)

\* Variant: any requested property flag present is enough.
MemoryTypeMatches_AnyFlag(memoryTypeBits, mem_properties, propertyFlags, i) ==
  /\ BitAnd(memoryTypeBits, 2^i) # 0
  /\ BitAnd(propertyFlags, mem_properties) # 0

\* (memoryTypeBits & (1 << i)) &&
\* (memoryTypes[i].propertyFlags & mem_properties) == mem_properties
MemoryTypeMatches(memoryTypeBits, mem_properties, propertyFlags, i) ==
  /\ BitAnd(memoryTypeBits, 2^i) # 0
  /\ BitAnd(propertyFlags, mem_properties) = mem_properties

\* for (int i = 0; i < memoryTypeCount; i++) if (...) { index = i; break; }
RECURSIVE FindMemoryTypeIndex(_, _, _, _)
FindMemoryTypeIndex(memoryTypeBits, mem_properties, memoryTypes, i) ==
  IF i >= Len(memoryTypes)
    THEN nullopt
    ELSE IF MemoryTypeMatches(memoryTypeBits, mem_properties,
                              memoryTypes[i + 1], i)
    THEN i
    ELSE FindMemoryTypeIndex(memoryTypeBits, mem_properties, memoryTypes,
                             i + 1)

\* Requirement bitmasks, requested flags and memory-type tables examined.  The
\* bitmask may have a bit set above every index of the table.
MemoryRequests ==
  [memoryTypeBits : 0..(2^(MaxMemoryTypes + 1) - 1),
   mem_properties : 0..(2^NumPropertyBits - 1),
   memoryTypes    : UNION {[1..n -> 0..(2^NumPropertyBits - 1)] :
                             n \in 0..MaxMemoryTypes}]

InitMemory ==
  /\ pc = "AllocateMemoryForResource"
  /\ AppConstructed
  /\ NoLoad
  /\ NoFrame
  /\ NoSemaphores
  /\ args \in MemoryRequests
  /\ ret = <<>>

\* bool AllocateMemoryForResource(...): without a matching type it returns
\* false before vkAllocateMemory; otherwise vkAllocateMemory succeeds or fails.
AllocateMemoryForResource ==
  /\ pc = "AllocateMemoryForResource"
  /\ LET memory_type_index ==
           FindMemoryTypeIndex(args.memoryTypeBits, args.mem_properties,
                               args.memoryTypes, 0)
     IN  IF memory_type_index = nullopt
           THEN ret' = [value |-> FALSE, memoryTypeIndex |-> nullopt,
                        vkAllocateMemory |-> "not called"]
           ELSE \E r \in {"VK_SUCCESS", "VK_ERROR_OUT_OF_DEVICE_MEMORY"} :
                  ret' = [value |-> (r = "VK_SUCCESS"),
                          memoryTypeIndex |-> memory_type_index,
                          vkAllocateMemory |-> r]
  /\ pc' = "AllocateMemoryForResourceReturned"
  /\ UNCHANGED <<appVars, args, loadVars, frameVars, semVars>>

NextMemory == AllocateMemoryForResource

SpecMemory == InitMemory /\ [][NextMemory]_vars

----------------------------------------------------------------------------
\* ChooseSwapChainExtent (src/point_light/app.cpp, src/hello_triangle/app.cpp)

\* static_cast<uint32_t>(int) of a framebuffer dimension: glfwGetFramebufferSize
\* reports no negative size, and a value >= 0 converts to itself.
ToUint32(x) == IF x >= 0 THEN x ELSE UINT32_MAX + x + 1

\* Variant: the upper limit is not applied.
Clamp_LowerOnly(v, lo, hi) == IF v < lo THEN lo ELSE v

\* std::clamp(v, lo, hi)
Clamp(v, lo, hi) == IF v < lo THEN lo ELSE IF hi < v THEN hi ELSE v

\* The function: the surface's current extent, or the framebuffer size clamped
\* to the surface's limits when the current width is the sentinel.
ChooseSwapChainExtentOf(capabilities, framebuffer) ==
  IF capabilities.currentExtent.width # UINT32_MAX
    THEN capabilities.currentExtent
    ELSE [width  |-> Clamp(ToUint32(framebuffer.width),
                           capabilities.minImageExtent.width,
                           capabilities.maxImageExtent.width),
          height |-> Clamp(ToUint32(framebuffer.height),
                           capabilities.minImageExtent.height,
                           capabilities.maxImageExtent.height)]

\* Pixel counts examined for the surface limits and the framebuffer.
ExtentValues == {50, 100, 4000, 6000}

Extents(values) == [width : values, height : values]

\* Surface capability reports (minImageExtent <= maxImageExtent in each
\* dimension) and framebuffer sizes examined.
ExtentRequests ==
  {a \in [currentExtent   : Extents(ExtentValues \cup {UINT32_MAX}),
          minImageExtent  : Extents(ExtentValues),
          maxImageExtent  : Extents(ExtentValues),
          framebuffer     : Extents(ExtentValues \cup {0})] :
     /\ a.minImageExtent.width <= a.maxImageExtent.width
     /\ a.minImageExtent.height <= a.maxImageExtent.height}

InitExtent ==
  /\ pc = "ChooseSwapChainExtent"
  /\ AppConstructed
  /\ NoLoad
  /\ NoFrame
  /\ NoSemaphores
  /\ args \in ExtentRequests
  /\ ret = <<>>

\* VkExtent2D ChooseSwapChainExtent(capabilities, window)
ChooseSwapChainExtent ==
  /\ pc = "ChooseSwapChainExtent"
  /\ ret' = ChooseSwapChainExtentOf(args, args.framebuffer)
  /\ pc' = "ChooseSwapChainExtentReturned"
  /\ UNCHANGED <<appVars, args, loadVars, frameVars, semVars>>

NextExtent == ChooseSwapChainExtent

SpecExtent == InitExtent /\ [][NextExtent]_vars

----------------------------------------------------------------------------
\* The image count CreateSwapChain requests (src/point_light/app.cpp)

\* std::min(a, b)
Min(a, b) == IF b < a THEN b ELSE a

\* uint32_t swap_chain_image_count =
\*     std::min(minImageCount + 1, maxImageCount);
SwapChainImageCount(minImageCount, maxImageCount) ==
  Min(minImageCount + 1, maxImageCount)

\* Surface capability reports: maxImageCount is 0 (no limit) or at least
\* minImageCount.
ImageCountReports ==
  {r \in [minImageCount : 1..MaxSurfaceImages,
          maxImageCount : 0..MaxSurfaceImages] :
     r.maxImageCount = 0 \/ r.maxImageCount >= r.minImageCount}

InitImageCount ==
  /\ pc = "RequestImageCount"
  /\ AppConstructed
  /\ NoLoad
  /\ NoFrame
  /\ NoSemaphores
  /\ args \in ImageCountReports
  /\ ret = <<>>

\* bool App::CreateSwapChain(): the value written to
\* swap_chain_info.minImageCount
RequestImageCount ==
  /\ pc = "RequestImageCount"
  /\ ret' = SwapChainImageCount(args.minImageCount, args.maxImageCount)
  /\ pc' = "RequestImageCountReturned"
  /\ UNCHANGED <<appVars, args, loadVars, frameVars, semVars>>

NextImageCount == RequestImageCount

SpecImageCount == InitImageCount /\ [][NextImageCount]_vars

----------------------------------------------------------------------------
\* LoadModel (src/utils/model.cpp).  The k-th vertex declared by the file is
\* written k; a normal is written by the three vertices it is computed from.

\* static_cast<uint16_t>(x)
ToUint16(x) == x % (2^IndexBits)

\* `v x y z`
VertexLine == [kind |-> "v"]

\* `f i1 i2 ...`
FaceLine(idx) == [kind |-> "f", idx |-> idx]

\* n lines `v`
Vertices(n) == [k \in 1..n |-> VertexLine]

\* Sequences over S of the lengths in lens
SeqsOf(S, lens) == UNION {[1..n -> S] : n \in lens}

\* Files with one face: up to MaxVertices vertices, then a triangle or quad
\* with any indices in -MaxVertices..MaxVertices, or a face of another size.
OneFaceFiles ==
  {Vertices(n) \o <<FaceLine(idx)>> :
     n \in 0..MaxVertices,
     idx \in SeqsOf((-MaxVertices)..MaxVertices, {3, 4})
             \cup SeqsOf({-1, 1}, {0, 1, 2, 5})}

\* Files with up to MaxFaces faces after MaxVertices vertices.
ManyFaceFiles ==
  {Vertices(MaxVertices) \o faces :
     faces \in SeqsOf({FaceLine(<<-1, -2, -3>>), FaceLine(<<-4, -3, -2, -1>>),
                       FaceLine(<<1, 2, 3>>), FaceLine(<<0, 1, 2, 3>>)},
                      0..MaxFaces)}

\* `mtllib path`: lib is the material file at path, found tells whether it
\* can be opened and names lists the names of its newmtl lines.
MtllibLine(lib) == [kind |-> "mtllib", lib |-> lib]

\* `usemtl name` (name is "" when the line ends after the token)
UsemtlLine(name) == [kind |-> "usemtl", name |-> name]

\* Material files: one defining a and b, one defining a only, one missing.
MaterialLibraries ==
  {[found |-> TRUE, names |-> <<"a", "b">>],
   [found |-> TRUE, names |-> <<"a">>],
   [found |-> FALSE, names |-> <<>>]}

\* Files that use materials: one vertex, then up to MaxDirectives mtllib,
\* usemtl and triangle lines in any order.
MaterialFiles ==
  {Vertices(1) \o lines :
     lines \in SeqsOf({MtllibLine(lib) : lib \in MaterialLibraries}
                      \cup {UsemtlLine(name) : name \in {"a", "b", ""}}
                      \cup {FaceLine(<<-1, -1, -1>>)},
                      0..MaxDirectives)}

ModelFiles == OneFaceFiles \cup ManyFaceFiles \cup MaterialFiles

\* int mtl_idx;  has no initializer: the values it may hold before the first
\* usemtl line assigns it.
IndeterminateInts == {0, 7}

\* glm::normalize(glm::cross(b - a, c - a))
Normal(a, b, c) == <<"normal", a, b, c>>

\* The model the caller's variable holds before the call.
PreviousModel ==
  [positions |-> <<1, 1, 1>>,
   normals |-> <<Normal(1, 1, 1), Normal(1, 1, 1), Normal(1, 1, 1)>>,
   material_indices |-> <<0, 0, 0>>, index_buffer |-> <<0, 1, 2>>,
   materials |-> <<"previous">>]

\* LoadMaterialFile: materials and mtl_name_to_idx after the call on a file
\* that can be opened: one material per newmtl line, and each name mapped to
\* the index of the last material of that name.
LoadMaterialFile(lib) ==
  [materials |-> lib.names,
   mtl_name_to_idx |->
     {<<lib.names[i], i - 1>> : i \in {j \in 1..Len(lib.names) :
         \A k \in (j + 1)..Len(lib.names) : lib.names[k] # lib.names[j]}}]

\* int mtl_idx;  is never assigned when the file has no usemtl line.
IndeterminateInt == "indeterminate"

\* positions[i] of a std::vector (i counts from 0)
At(v, i) == v[i + 1]

\* Variant: a negative index counts from one past the last vertex.
ResolveIndex_OnePast(i, top) == IF i < 0 THEN top + i + 1 ELSE i

\* if (face_pos_indices[i] < 0) face_pos_indices[i] = top_pos_idx + ...
ResolveIndex(i, top) == IF i < 0 THEN top + i ELSE i

\* The entries of face_pos_indices a triangle pushes, in order.
TriangleCorners == <<0, 1, 2>>

\* Variant: a quad pushes its four corners once each.
QuadCorners_NoSplit == <<0, 1, 2, 3>>

\* The entries of face_pos_indices a quad pushes, in order.
QuadCorners == <<0, 1, 2, 0, 2, 3>>

InitLoadModel ==
  /\ pc = "GetLine"
  /\ AppConstructed
  /\ NoCall
  /\ NoFrame
  /\ NoSemaphores
  /\ file \in ModelFiles
  /\ next_line = 1
  /\ positions = <<>>
  /\ face_pos_indices = <<>>
  /\ top_pos_idx = 0
  /\ current_idx = 0
  /\ model = EmptyModel
  /\ load_ret = "none"
  /\ materials = <<>>
  /\ mtl_name_to_idx = {}
  /\ mtl_idx \in IndeterminateInts
  /\ out_model = PreviousModel

\* Variant: a failing return stores the model built so far.
ReturnFalse_Assigning ==
  /\ load_ret' = "false"
  /\ pc' = "LoadModelReturned"
  /\ out_model' = model

\* return false;
ReturnFalse ==
  /\ load_ret' = "false"
  /\ pc' = "LoadModelReturned"
  /\ UNCHANGED out_model

\* token == "mtllib": LoadMaterialFile replaces materials and
\* mtl_name_to_idx; a file that cannot be opened returns false.
ReadMtllib ==
  /\ pc = "GetLine"
  /\ next_line <= Len(file)
  /\ file[next_line].kind = "mtllib"
  /\ next_line' = next_line + 1
  /\ IF file[next_line].lib.found
       THEN /\ materials' = LoadMaterialFile(file[next_line].lib).materials
            /\ mtl_name_to_idx' =
                 LoadMaterialFile(file[next_line].lib).mtl_name_to_idx
            /\ UNCHANGED <<pc, load_ret, out_model>>
       ELSE /\ materials' = <<>>
            /\ mtl_name_to_idx' = {}
            /\ ReturnFalse
  /\ UNCHANGED <<appVars, callVars, file, positions, face_pos_indices,
                 top_pos_idx, current_idx, model, mtl_idx, frameVars,
                 semVars>>

\* token == "usemtl": mtl_idx = mtl_name_to_idx.find(mtl_name)->second; an
\* empty name or a name that is not found returns false.
ReadUsemtl ==
  /\ pc = "GetLine"
  /\ next_line <= Len(file)
  /\ file[next_line].kind = "usemtl"
  /\ next_line' = next_line + 1
  /\ LET mtl_name == file[next_line].name
         found    == {p \in mtl_name_to_idx : p[1] = mtl_name}
     IN  IF mtl_name = "" \/ found = {}
           THEN /\ ReturnFalse
                /\ UNCHANGED mtl_idx
           ELSE /\ mtl_idx' = (CHOOSE p \in found : TRUE)[2]
                /\ UNCHANGED <<pc, load_ret, out_model>>
  /\ UNCHANGED <<appVars, callVars, file, positions, face_pos_indices,
                 top_pos_idx, current_idx, model, materials, mtl_name_to_idx,
                 frameVars, semVars>>

\* token == "v": positions.push_back({f1, f2, f3})
ReadVertex ==
  /\ pc = "GetLine"
  /\ next_line <= Len(file)
  /\ file[next_line].kind = "v"
  /\ positions' = Append(positions, Len(positions) + 1)
  /\ next_line' = next_line + 1
  /\ UNCHANGED <<pc, appVars, callVars, face_pos_indices, top_pos_idx,
                 current_idx, model, load_ret, file, materials,
                 mtl_name_to_idx, mtl_idx, out_model, frameVars, semVars>>

\* The pushes of one face: corners lists the entries of face_pos_indices whose
\* positions are pushed, normals the normals pushed, count the number of
\* material indices and of index-buffer entries pushed.
EmitFace(indices, corners, normals, count) ==
  /\ model' =
       [positions |->
          model.positions \o
            [j \in 1..Len(corners) |-> At(positions, At(indices, corners[j]))],
        normals |-> model.normals \o normals,
        material_indices |->
          model.material_indices \o [j \in 1..count |-> mtl_idx],
        index_buffer |->
          model.index_buffer \o
            [j \in 1..count |-> ToUint16(current_idx + j - 1)],
        materials |-> model.materials]
  /\ current_idx' = ToUint16(current_idx + count)

\* Variant: every polygon of three or more corners is pushed.
FaceSizeHandled_Fan(size) == size >= 3

\* The sizes of face_pos_indices that have a branch of their own: size() == 3
\* and size() == 4; every other size reaches the final else.
FaceSizeHandled(size) == size = 3 \/ size = 4

\* token == "f": the indices are read and resolved; a triangle or a quad is
\* pushed; any other size, or an index still negative, returns false.  An
\* index at or past positions.size() is read outside the vector.
ReadFace ==
  /\ pc = "GetLine"
  /\ next_line <= Len(file)
  /\ file[next_line].kind = "f"
  /\ next_line' = next_line + 1
  /\ top_pos_idx' = Len(positions)
  /\ LET raw     == file[next_line].idx
         top     == Len(positions)
         indices == [k \in 1..Len(raw) |-> ResolveIndex(raw[k], top)]
         P(k)    == At(positions, At(indices, k))
     IN  /\ face_pos_indices' = indices
         /\ IF \E k \in 1..Len(indices) : indices[k] < 0
              THEN /\ ReturnFalse
                   /\ UNCHANGED <<model, current_idx>>
            ELSE IF ~FaceSizeHandled(Len(indices))
              THEN /\ ReturnFalse
                   /\ UNCHANGED <<model, current_idx>>
            ELSE IF \E k \in 1..Len(indices) : indices[k] >= top
              THEN /\ pc' = "undefined"
                   /\ UNCHANGED <<model, current_idx, load_ret, out_model>>
            ELSE IF Len(indices) = 3
              THEN /\ EmitFace(indices, TriangleCorners,
                               <<Normal(P(0), P(1), P(2)),
                                 Normal(P(0), P(1), P(2)),
                                 Normal(P(0), P(1), P(2))>>, 3)
                   /\ UNCHANGED <<pc, load_ret, out_model>>
              ELSE /\ EmitFace(indices, QuadCorners,
                               <<Normal(P(0), P(1), P(2)),
                                 Normal(P(0), P(1), P(2)),
                                 Normal(P(0), P(1), P(2)),
                                 Normal(P(0), P(2), P(3)),
                                 Normal(P(0), P(2), P(3)),
                                 Normal(P(0), P(2), P(3))>>, 6)
                   /\ UNCHANGED <<pc, load_ret, out_model>>
  /\ UNCHANGED <<appVars, callVars, positions, file, materials,
                 mtl_name_to_idx, mtl_idx, frameVars, semVars>>

\* std::getline fails at the end of the file:
\* model.materials = std::move(materials); *out_model = std::move(model);
\* return true;
LoadModelReturnsTrue ==
  /\ pc = "GetLine"
  /\ next_line > Len(file)
  /\ model' = [model EXCEPT !.materials = materials]
  /\ out_model' = model'
  /\ load_ret' = "true"
  /\ pc' = "LoadModelReturned"
  /\ UNCHANGED <<appVars, callVars, file, next_line, positions,
                 face_pos_indices, top_pos_idx, current_idx, materials,
                 mtl_name_to_idx, mtl_idx, frameVars, semVars>>

NextLoadModel ==
  \/ ReadMtllib
  \/ ReadUsemtl
  \/ ReadVertex
  \/ ReadFace
  \/ LoadModelReturnsTrue

SpecLoadModel == InitLoadModel /\ [][NextLoadModel]_vars

----------------------------------------------------------------------------
\* The material copy of App::CreateDescriptorSets (SpecMaterials).  The k-th
\* material of model_.materials is labelled k (0-based); an entry of
\* frag_ubo_data.materials holds the label copied into it.

\* Material materials[20];
MaterialsArraySize == 20

\* i names an element of frag_ubo_data.materials
InBounds(i) == i < MaterialsArraySize

\* FragmentShaderUbo frag_ubo_data;  (materials not yet assigned)
FragUboUnassigned ==
  [i |-> 0,
   materials |-> [k \in 0..(MaterialsArraySize - 1) |-> IndeterminateInt],
   out_of_bounds |-> {}]

InitMaterials ==
  /\ pc = "CopyMaterials"
  /\ AppConstructed
  /\ NoLoad
  /\ NoFrame
  /\ NoSemaphores
  /\ args \in [materials : 0..MaxMaterials]
  /\ ret = FragUboUnassigned

\* for (int i = 0; i < model_.materials.size(); ++i)
\*   frag_ubo_data.materials[i] = model_.materials[i];
\* A store past the last element of the array is undefined behaviour.
CopyMaterial ==
  /\ pc = "CopyMaterials"
  /\ ret.i < args.materials
  /\ IF InBounds(ret.i)
       THEN /\ ret' = [ret EXCEPT !.materials[ret.i] = ret.i, !.i = ret.i + 1]
            /\ UNCHANGED pc
       ELSE /\ ret' = [ret EXCEPT !.out_of_bounds = @ \cup {ret.i}]
            /\ pc' = "undefined"
  /\ UNCHANGED <<appVars, args, loadVars, frameVars, semVars>>

\* the loop condition i < model_.materials.size() is false
CopyMaterialsDone ==
  /\ pc = "CopyMaterials"
  /\ ~(ret.i < args.materials)
  /\ pc' = "MaterialsCopied"
  /\ UNCHANGED <<appVars, callVars, loadVars, frameVars, semVars>>

NextMaterials ==
  \/ CopyMaterial
  \/ CopyMaterialsDone

SpecMaterials == InitMaterials /\ [][NextMaterials]_vars

----------------------------------------------------------------------------
\* Render targets, descriptor sets, command buffers and their execution
\* (SpecFrame).  A handle is the description of the object it names: an image
\* is [name, index], an image view is [image, baseArrayLayer, layerCount], a
\* framebuffer is [renderPass, attachments].  args holds
\* swap_chain_images_.size() and model_.index_buffer.size().

\* Values of model_.index_buffer.size() examined: one triangle, one quad.
IndexCounts == {3, 6}

NullImage == [name |-> "VK_NULL_HANDLE", index |-> 0]

NullView == [image |-> NullImage, baseArrayLayer |-> 0, layerCount |-> 0]

NullFramebuffer == [renderPass |-> "VK_NULL_HANDLE", attachments |-> <<>>]

\* A default-constructed ShadowPassFrameResource.
NullShadowFrame ==
  [shadow_texture |-> NullImage, depth_framebuffers |-> <<>>,
   shadow_texture_view |-> NullView]

\* image_view_info.image = swap_chain_images_[i]; layerCount = 1
SwapChainImageView(i) ==
  [image |-> [name |-> "swap_chain_images_", index |-> i],
   baseArrayLayer |-> 0, layerCount |-> 1]

\* color_image_view_info.image = color_image_
ColorImageView ==
  [image |-> [name |-> "color_image_", index |-> 0],
   baseArrayLayer |-> 0, layerCount |-> 1]

\* depth_image_view_info.image = depth_image_
DepthImageView ==
  [image |-> [name |-> "depth_image_", index |-> 0],
   baseArrayLayer |-> 0, layerCount |-> 1]

\* VkImageView attachments[] =
\*     { color_image_view_, depth_image_view_, swap_chain_image_views_[i] };
SceneFramebuffer(i) ==
  [renderPass |-> "render_pass_",
   attachments |-> <<ColorImageView, DepthImageView, SwapChainImageView(i)>>]

\* The frame resources are empty and nothing was submitted yet.
InitFrame ==
  /\ pc = "CreateFramebuffers"
  /\ AppConstructed
  /\ NoLoad
  /\ NoSemaphores
  /\ NoFrame
  /\ args \in [swap_chain_images : ImageCounts, index_count : IndexCounts]
  /\ ret = <<>>

\* bool App::CreateFramebuffers(): created is the number of vkCreateFramebuffer
\* calls that succeed (the images and views before the loop are created when
\* created >= 0 is reached at all).
CreateFramebuffers ==
  /\ pc = "CreateFramebuffers"
  /\ \E created \in 0..args.swap_chain_images :
       /\ swap_chain_framebuffers_' =
            [i \in 1..args.swap_chain_images |->
               IF i <= created THEN SceneFramebuffer(i - 1)
                               ELSE NullFramebuffer]
       /\ pc' = IF created = args.swap_chain_images
                  THEN "CreateShadowFramebuffers" ELSE "ReturnedFalse"
  /\ UNCHANGED <<appVars, callVars, loadVars, semVars,
                 shadow_frame_resources_, descriptor_sets_, command_buffers_,
                 shadow_layouts, executing, frame_log>>

\* Variant: every per-layer view targets array layer 0.
BaseArrayLayer_Zero(i) == 0

\* image_view_info.subresourceRange.baseArrayLayer = i
BaseArrayLayer(i) == i

\* One ShadowPassFrameResource as CreateShadowFramebuffers fills it: the
\* shadow texture, six one-layer views each attached to one framebuffer, and
\* the cube view over all six layers.
ShadowFrame(k) ==
  LET shadow_texture == [name |-> "shadow_texture", index |-> k]
  IN  [shadow_texture |-> shadow_texture,
       depth_framebuffers |->
         [i \in 1..6 |->
            [renderPass |-> "shadow_render_pass_",
             attachments |->
               <<[image |-> shadow_texture,
                  baseArrayLayer |-> BaseArrayLayer(i - 1),
                  layerCount |-> 1]>>]],
       shadow_texture_view |->
         [image |-> shadow_texture, baseArrayLayer |-> 0, layerCount |-> 6]]

\* bool App::CreateShadowFramebuffers(): created is the number of frames
\* completed before a creation call fails.  Each shadow texture is created in
\* VK_IMAGE_LAYOUT_UNDEFINED (shadow_tex_info.initialLayout).
CreateShadowFramebuffers ==
  /\ pc = "CreateShadowFramebuffers"
  /\ \E created \in 0..args.swap_chain_images :
       /\ shadow_frame_resources_' =
            [k \in 1..args.swap_chain_images |->
               IF k <= created THEN ShadowFrame(k - 1) ELSE NullShadowFrame]
       /\ shadow_layouts' =
            [k \in 1..created |->
               [l \in 1..6 |-> "VK_IMAGE_LAYOUT_UNDEFINED"]]
       /\ pc' = IF created = args.swap_chain_images
                  THEN "AllocateCommandBuffers" ELSE "ReturnedFalse"
  /\ UNCHANGED <<appVars, callVars, loadVars, semVars,
                 swap_chain_framebuffers_, descriptor_sets_, command_buffers_,
                 executing, frame_log>>

\* bool App::CreateCommandBuffers():
\* command_buffers_.resize(swap_chain_framebuffers_.size()) and
\* vkAllocateCommandBuffers
AllocateCommandBuffers ==
  /\ pc = "AllocateCommandBuffers"
  /\ \E ok \in BOOLEAN :
       /\ command_buffers_' = [i \in 1..Len(swap_chain_framebuffers_) |-> <<>>]
       /\ pc' = IF ok THEN "UpdateDescriptorSets" ELSE "ReturnedFalse"
  /\ UNCHANGED <<appVars, callVars, loadVars, semVars,
                 swap_chain_framebuffers_, shadow_frame_resources_,
                 descriptor_sets_, shadow_layouts, executing, frame_log>>

\* image_info.imageView = shadow_frame_resources_[i].shadow_texture_view;
\* descriptor_write.dstSet = descriptor_sets_[i];
ShadowFrameOfSet(i) == i

\* The three vkUpdateDescriptorSets loops of App::CreateDescriptorSets on
\* descriptor_sets_[i]: bindings 0 and 1 are the uniform buffers of index i,
\* binding 2 the shadow cube view with its declared layout.
DescriptorSet(i) ==
  [binding0 |-> [name |-> "vert_ubo_buffers_", index |-> i],
   binding1 |-> [name |-> "frag_ubo_buffers_", index |-> i],
   binding2 |->
     [imageView |->
        shadow_frame_resources_[ShadowFrameOfSet(i) + 1].shadow_texture_view,
      imageLayout |-> "VK_IMAGE_LAYOUT_SHADER_READ_ONLY_OPTIMAL"]]

\* bool App::CreateDescriptorSets(): allocation, then the descriptor writes;
\* a failed pool creation, allocation or vkCreateSampler returns false before
\* the shadow-view writes.
UpdateDescriptorSets ==
  /\ pc = "UpdateDescriptorSets"
  /\ \E ok \in BOOLEAN :
       IF ok
         THEN /\ descriptor_sets_' =
                   [i \in 1..args.swap_chain_images |-> DescriptorSet(i - 1)]
              /\ pc' = "RecordEachCommandBuffer"
         ELSE /\ UNCHANGED descriptor_sets_
              /\ pc' = "ReturnedFalse"
  /\ UNCHANGED <<appVars, callVars, loadVars, semVars,
                 swap_chain_framebuffers_, shadow_frame_resources_,
                 command_buffers_, shadow_layouts, executing, frame_log>>

\* void App::RecordShadowPassCommands(command_buffer, frame_index): the
\* commands of the loop over frame.depth_framebuffers
RecordShadowPassCommands(frame_index) ==
  LET frame == shadow_frame_resources_[frame_index + 1]
      Pass[i \in 0..Len(frame.depth_framebuffers)] ==
        IF i = 0 THEN <<>>
        ELSE Pass[i - 1] \o
             <<[cmd |-> "vkCmdBeginRenderPass",
                renderPass |-> "shadow_render_pass_",
                framebuffer |-> frame.depth_framebuffers[i]],
               [cmd |-> "vkCmdBindPipeline", pipeline |-> "shadow_pipeline_"],
               [cmd |-> "vkCmdPushConstants", shadow_mats_ |-> i - 1],
               [cmd |-> "vkCmdBindVertexBuffers",
                buffers |-> <<"position_buffer_">>],
               [cmd |-> "vkCmdBindIndexBuffer", buffer |-> "index_buffer_"],
               [cmd |-> "vkCmdDrawIndexed", indexCount |-> args.index_count],
               [cmd |-> "vkCmdEndRenderPass"]>>
  IN  Pass[Len(frame.depth_framebuffers)]

\* The image barrier both transitions record, over all layers of the frame's
\* shadow texture.
ShadowTextureBarrier(frame_index, oldLayout, newLayout) ==
  [cmd |-> "vkCmdPipelineBarrier",
   image |-> shadow_frame_resources_[frame_index + 1].shadow_texture,
   oldLayout |-> oldLayout, newLayout |-> newLayout,
   baseArrayLayer |-> 0, layerCount |-> 6]

\* void App::TransitionShadowTextureForShaderRead(command_buffer, frame_index)
TransitionShadowTextureForShaderRead(frame_index) ==
  <<ShadowTextureBarrier(frame_index,
      "VK_IMAGE_LAYOUT_DEPTH_STENCIL_ATTACHMENT_OPTIMAL",
      "VK_IMAGE_LAYOUT_SHADER_READ_ONLY_OPTIMAL")>>

\* void App::RecordScenePassCommands(command_buffer, frame_index)
RecordScenePassCommands(frame_index) ==
  <<[cmd |-> "vkCmdBeginRenderPass", renderPass |-> "render_pass_",
     framebuffer |-> swap_chain_framebuffers_[frame_index + 1]],
    [cmd |-> "vkCmdBindPipeline", pipeline |-> "pipeline_"],
    [cmd |-> "vkCmdBindDescriptorSets", descriptor_sets_ |-> frame_index],
    [cmd |-> "vkCmdBindVertexBuffers",
     buffers |-> <<"position_buffer_", "normal_buffer_",
                   "material_idx_buffer_">>],
    [cmd |-> "vkCmdBindIndexBuffer", buffer |-> "index_buffer_"],
    [cmd |-> "vkCmdDrawIndexed", indexCount |-> args.index_count],
    [cmd |-> "vkCmdEndRenderPass"]>>

\* void App::TransitionShadowTextureForRendering(command_buffer, frame_index)
TransitionShadowTextureForRendering(frame_index) ==
  <<ShadowTextureBarrier(frame_index,
      "VK_IMAGE_LAYOUT_SHADER_READ_ONLY_OPTIMAL",
      "VK_IMAGE_LAYOUT_DEPTH_STENCIL_ATTACHMENT_OPTIMAL")>>

\* Variant: the scene pass is recorded before the shadow passes.
CommandsOf_SceneFirst(i) ==
  RecordScenePassCommands(i) \o TransitionShadowTextureForShaderRead(i) \o
  RecordShadowPassCommands(i) \o TransitionShadowTextureForRendering(i)

\* The four recording calls of App::RecordCommandBuffers on command buffer i,
\* in source order.
CommandsOf(i) ==
  RecordShadowPassCommands(i) \o TransitionShadowTextureForShaderRead(i) \o
  RecordScenePassCommands(i) \o TransitionShadowTextureForRendering(i)

\* bool App::RecordCommandBuffers(): count command buffers are begun, recorded
\* and ended before vkBeginCommandBuffer (or vkEndCommandBuffer) fails.
RecordEachCommandBuffer ==
  /\ pc = "RecordEachCommandBuffer"
  /\ \E count \in 0..Len(command_buffers_) :
       /\ command_buffers_' =
            [i \in 1..Len(command_buffers_) |->
               IF i <= count THEN CommandsOf(i - 1) ELSE <<>>]
       /\ pc' = IF count = Len(command_buffers_)
                  THEN "DrawFrame" ELSE "ReturnedFalse"
  /\ UNCHANGED <<appVars, callVars, loadVars, semVars,
                 swap_chain_framebuffers_, shadow_frame_resources_,
                 descriptor_sets_, shadow_layouts, executing, frame_log>>

\* depth_attachment.initialLayout / depth_attachment_ref.layout /
\* depth_attachment.finalLayout of App::CreateShadowRenderPass
ShadowRenderPassLayouts ==
  [initialLayout |-> "VK_IMAGE_LAYOUT_UNDEFINED",
   layout        |-> "VK_IMAGE_LAYOUT_DEPTH_STENCIL_ATTACHMENT_OPTIMAL",
   finalLayout   |-> "VK_IMAGE_LAYOUT_DEPTH_STENCIL_ATTACHMENT_OPTIMAL"]

\* The array layers (1-based) an image view or a barrier range covers.
LayersOf(range) ==
  (range.baseArrayLayer + 1)..(range.baseArrayLayer + range.layerCount)

\* The layouts after the layers of one shadow texture move to a layout.
SetLayout(layouts, texture, layers, layout) ==
  [layouts EXCEPT ![texture + 1] =
     [l \in 1..6 |-> IF l \in layers THEN layout ELSE @[l]]]

\* Variant: the command buffer of the previous image is submitted.
SubmittedCommandBuffer_Previous(k) ==
  (k + Len(command_buffers_) - 1) % Len(command_buffers_)

\* queue_submit_info.pCommandBuffers = &command_buffers_[image_index];
SubmittedCommandBuffer(k) == k

\* App::DrawFrame up to vkQueueSubmit: vkAcquireNextImageKHR returns
\* image_index and command_buffers_[image_index] is submitted.
QueueSubmit ==
  /\ pc = "DrawFrame"
  /\ \E k \in 0..(args.swap_chain_images - 1) :
       /\ frame_log' = [image_index |-> k,
                        command_buffer |-> SubmittedCommandBuffer(k),
                        presented |-> VK_NULL_HANDLE]
       /\ executing' = [command_buffer |-> SubmittedCommandBuffer(k),
                        pos |-> 1,
                        framebuffer |-> NullFramebuffer,
                        descriptor_set |-> VK_NULL_HANDLE]
  /\ pc' = "Executing"
  /\ UNCHANGED <<appVars, callVars, loadVars, semVars,
                 swap_chain_framebuffers_, shadow_frame_resources_,
                 descriptor_sets_, command_buffers_, shadow_layouts>>

\* The queue executes the next command of the submitted command buffer.
\* Beginning a render pass moves the attachment's layers to the subpass
\* layout, ending it to the final layout; a barrier moves the layers of its
\* range to its new layout; binding records the descriptor set.
ExecuteCommand ==
  /\ pc = "Executing"
  /\ executing.pos <= Len(command_buffers_[executing.command_buffer + 1])
  /\ LET c == command_buffers_[executing.command_buffer + 1][executing.pos]
         target == executing.framebuffer.attachments[1]
     IN  CASE c.cmd = "vkCmdBeginRenderPass" ->
                /\ executing' = [executing EXCEPT !.pos = @ + 1,
                                   !.framebuffer = c.framebuffer]
                /\ IF c.renderPass = "shadow_render_pass_"
                     THEN shadow_layouts' =
                            SetLayout(shadow_layouts,
                                      c.framebuffer.attachments[1].image.index,
                                      LayersOf(c.framebuffer.attachments[1]),
                                      ShadowRenderPassLayouts.layout)
                     ELSE UNCHANGED shadow_layouts
           [] c.cmd = "vkCmdEndRenderPass" ->
                /\ executing' = [executing EXCEPT !.pos = @ + 1,
                                   !.framebuffer = NullFramebuffer]
                /\ IF executing.framebuffer.renderPass = "shadow_render_pass_"
                     THEN shadow_layouts' =
                            SetLayout(shadow_layouts, target.image.index,
                                      LayersOf(target),
                                      ShadowRenderPassLayouts.finalLayout)
                     ELSE UNCHANGED shadow_layouts
           [] c.cmd = "vkCmdPipelineBarrier" ->
                /\ executing' = [executing EXCEPT !.pos = @ + 1]
                /\ shadow_layouts' =
                     SetLayout(shadow_layouts, c.image.index, LayersOf(c),
                               c.newLayout)
           [] c.cmd = "vkCmdBindDescriptorSets" ->
                /\ executing' = [executing EXCEPT !.pos = @ + 1,
                                   !.descriptor_set = c.descriptor_sets_]
                /\ UNCHANGED shadow_layouts
           [] OTHER ->
                /\ executing' = [executing EXCEPT !.pos = @ + 1]
                /\ UNCHANGED shadow_layouts
  /\ UNCHANGED <<pc, appVars, callVars, loadVars, semVars,
                 swap_chain_framebuffers_, shadow_frame_resources_,
                 descriptor_sets_, command_buffers_, frame_log>>

\* App::DrawFrame from vkQueuePresentKHR: present_info.pImageIndices =
\* &image_index.  The present waits on the semaphore the submission signals,
\* that is for the end of the command buffer.
QueuePresent ==
  /\ pc = "Executing"
  /\ executing.pos > Len(command_buffers_[executing.command_buffer + 1])
  /\ frame_log' = [frame_log EXCEPT !.presented = frame_log.image_index]
  /\ executing' = <<>>
  /\ pc' = "DrawFrame"
  /\ UNCHANGED <<appVars, callVars, loadVars, semVars,
                 swap_chain_framebuffers_, shadow_frame_resources_,
                 descriptor_sets_, command_buffers_, shadow_layouts>>

\* bool App::RecreateSwapChain(): after vkDeviceWaitIdle every scene and
\* shadow resource, descriptor set and command buffer is destroyed and the
\* create steps run again for the new swap chain's image count.
DestroyForRecreate ==
  /\ pc = "DrawFrame"
  /\ \E n \in ImageCounts : args' = [args EXCEPT !.swap_chain_images = n]
  /\ swap_chain_framebuffers_' = <<>>
  /\ shadow_frame_resources_' = <<>>
  /\ descriptor_sets_' = <<>>
  /\ command_buffers_' = <<>>
  /\ shadow_layouts' = <<>>
  /\ executing' = <<>>
  /\ frame_log' = <<>>
  /\ pc' = "CreateFramebuffers"
  /\ UNCHANGED <<appVars, ret, loadVars, semVars>>

NextFrameSpec ==
  \/ CreateFramebuffers
  \/ CreateShadowFramebuffers
  \/ AllocateCommandBuffers
  \/ UpdateDescriptorSets
  \/ RecordEachCommandBuffer
  \/ QueueSubmit
  \/ ExecuteCommand
  \/ QueuePresent
  \/ DestroyForRecreate

SpecFrame == InitFrame /\ [][NextFrameSpec]_vars

----------------------------------------------------------------------------
\* App::ChoosePhysicalDevice and IsPhysicalDeviceSuitable (SpecDevice).  args
\* is the list vkEnumeratePhysicalDevices returns; a device is what the
\* queries made on it answer.

\* VK_QUEUE_GRAPHICS_BIT = 0x00000001, VK_QUEUE_COMPUTE_BIT = 0x00000002
VK_QUEUE_GRAPHICS_BIT == 1

VK_QUEUE_COMPUTE_BIT == 2

\* const char* kRequiredDeviceExtensions[] = { VK_KHR_SWAPCHAIN_EXTENSION_NAME };
kRequiredDeviceExtensions == <<"VK_KHR_swapchain">>

\* Queue family lists examined: no family, graphics without present, present
\* without graphics, both in one family, each in a family of its own (in
\* either order).
QueueFamilyLists ==
  LET G  == [queueFlags |-> VK_QUEUE_GRAPHICS_BIT, present_support |-> FALSE]
      P  == [queueFlags |-> VK_QUEUE_COMPUTE_BIT, present_support |-> TRUE]
      GP == [queueFlags |-> VK_QUEUE_GRAPHICS_BIT + VK_QUEUE_COMPUTE_BIT,
             present_support |-> TRUE]
  IN  {<<>>, <<G>>, <<P>>, <<GP>>, <<G, P>>, <<P, G>>}

\* What the queries of IsPhysicalDeviceSuitable answer for one device.
PhysicalDevices ==
  [families : QueueFamilyLists,
   available_extensions : {{"VK_KHR_maintenance1"},
                           {"VK_KHR_maintenance1", "VK_KHR_swapchain"}},
   surface_formats_count : {0, 2},
   present_modes_count : {0, 3},
   samplerAnisotropy : BOOLEAN]

\* bool FoundQueueIndices(const QueueIndices& indices)
FoundQueueIndices(indices) ==
  /\ indices.graphics_queue_index # nullopt
  /\ indices.present_queue_index # nullopt

\* QueueIndices FindQueueIndices(physical_device, surface): the loop over the
\* families from index i on, with the indices found so far
RECURSIVE FindQueueIndicesFrom(_, _, _)
FindQueueIndicesFrom(families, i, indices) ==
  IF i >= Len(families)
    THEN indices
    ELSE LET family == families[i + 1]
             with_graphics ==
               IF BitAnd(family.queueFlags, VK_QUEUE_GRAPHICS_BIT) = 1
                 THEN [indices EXCEPT !.graphics_queue_index = i]
                 ELSE indices
             with_present ==
               IF family.present_support
                 THEN [with_graphics EXCEPT !.present_queue_index = i]
                 ELSE with_graphics
         IN  IF FoundQueueIndices(with_present)
               THEN with_present
               ELSE FindQueueIndicesFrom(families, i + 1, with_present)

\* QueueIndices indices = {}; ... return indices;
FindQueueIndices(physical_device) ==
  FindQueueIndicesFrom(physical_device.families, 0,
    [graphics_queue_index |-> nullopt, present_queue_index |-> nullopt])

\* bool SupportsRequiredDeviceExtensions(VkPhysicalDevice physical_device)
SupportsRequiredDeviceExtensions(physical_device) ==
  \A r \in 1..Len(kRequiredDeviceExtensions) :
    \E available_extension \in physical_device.available_extensions :
      available_extension = kRequiredDeviceExtensions[r]

\* Variant: the anisotropy feature is not examined.
IsPhysicalDeviceSuitable_NoAnisotropy(physical_device) ==
  /\ FoundQueueIndices(FindQueueIndices(physical_device))
  /\ SupportsRequiredDeviceExtensions(physical_device)
  /\ ~(physical_device.surface_formats_count = 0)
  /\ ~(physical_device.present_modes_count = 0)

\* bool IsPhysicalDeviceSuitable(physical_device, surface)
IsPhysicalDeviceSuitable(physical_device) ==
  /\ FoundQueueIndices(FindQueueIndices(physical_device))
  /\ SupportsRequiredDeviceExtensions(physical_device)
  /\ ~(physical_device.surface_formats_count = 0)
  /\ ~(physical_device.present_modes_count = 0)
  /\ physical_device.samplerAnisotropy

\* The loop of App::ChoosePhysicalDevice from phys_devices[i] on: the index of
\* the device assigned to physical_device_, or nullopt when the loop ends.
RECURSIVE FirstSuitableFrom(_, _)
FirstSuitableFrom(phys_devices, i) ==
  IF i >= Len(phys_devices)
    THEN nullopt
    ELSE IF IsPhysicalDeviceSuitable(phys_devices[i + 1])
           THEN i
           ELSE FirstSuitableFrom(phys_devices, i + 1)

InitDevice ==
  /\ pc = "ChoosePhysicalDevice"
  /\ AppConstructed
  /\ NoLoad
  /\ NoFrame
  /\ NoSemaphores
  /\ \E n \in 0..MaxDevices : args \in [1..n -> PhysicalDevices]
  /\ ret = <<>>

\* bool App::ChoosePhysicalDevice(): false when no device is enumerated or
\* none is suitable (physical_device_ is left as it was), else physical_device_
\* is the first suitable device.
ChoosePhysicalDeviceReturns ==
  /\ pc = "ChoosePhysicalDevice"
  /\ LET phys_devices_count == Len(args)
         chosen == FirstSuitableFrom(args, 0)
     IN  ret' = IF phys_devices_count = 0 \/ chosen = nullopt
                  THEN [value |-> FALSE, physical_device_ |-> VK_NULL_HANDLE]
                  ELSE [value |-> TRUE, physical_device_ |-> chosen]
  /\ pc' = "ChoosePhysicalDeviceReturned"
  /\ UNCHANGED <<appVars, args, loadVars, frameVars, semVars>>

NextDevice == ChoosePhysicalDeviceReturns

SpecDevice == InitDevice /\ [][NextDevice]_vars

----------------------------------------------------------------------------
\* The binary semaphores of DrawFrame (SpecSemaphores)
\*
\* A semaphore is signaled from the moment a signal operation on it is
\* queued until a wait operation on it is queued.  Entry slot + 1 of
\* image_ready_semaphores_ and of render_complete_semaphores_ tells whether
\* the semaphore of that slot is signaled.

\* VkResult values vkQueuePresentKHR can return: those of VkResults, and the
\* failure to queue the presentation at all.
PresentResults == VkResults \cup {"VK_ERROR_OUT_OF_HOST_MEMORY"}

\* Whether vkQueuePresentKHR queued its semaphore wait: it did when the
\* presentation was accepted or was rejected by the presentation engine; it
\* did not when the request could not be queued; after the loss of the
\* device either is possible.
PresentQueuedWait(r) ==
  CASE r \in {"VK_SUCCESS", "VK_SUBOPTIMAL_KHR", "VK_ERROR_OUT_OF_DATE_KHR"}
         -> {TRUE}
    [] r = "VK_ERROR_OUT_OF_HOST_MEMORY" -> {FALSE}
    [] OTHER -> BOOLEAN

\* vkCreateSemaphore: a semaphore is created unsignaled.
CreatedSemaphores == [i \in 1..kMaxFramesInFlight |-> FALSE]

\* The semaphore of the slot gets the given state.
SetSemaphore(semaphores, slot, signaled) ==
  [semaphores EXCEPT ![slot + 1] = signaled]

\* App::Init has returned true and MainLoop is about to poll the events of
\* its first iteration.
InitSemaphores ==
  /\ pc = "glfwPollEvents"
  /\ AppConstructed
  /\ NoCall
  /\ NoLoad
  /\ NoFrame
  /\ image_ready_semaphores_ = CreatedSemaphores
  /\ render_complete_semaphores_ = CreatedSemaphores

\* while (!glfwWindowShouldClose(window_)) { glfwPollEvents(); DrawFrame() ...
PollEvents ==
  /\ pc = "glfwPollEvents"
  /\ \E window_should_close \in BOOLEAN :
       IF window_should_close
         THEN /\ pc' = "MainLoopReturned"
              /\ UNCHANGED <<framebuffer_resized_, ops, draw_ret, result>>
         ELSE /\ DeliverEvents
              /\ pc' = "vkAcquireNextImageKHR"
              /\ ops' = <<>>
              /\ draw_ret' = "none"
              /\ result' = "NONE"
  /\ UNCHANGED <<current_frame_, syncVars, swap_chain_images_, image_index,
                 sizeVars, gpu_pending, live, recorded, caller, recreate_ret,
                 slot0, rc_trace, mainVars, failed_call, callVars, loadVars,
                 frameVars, semVars>>

\* vkAcquireNextImageKHR(..., image_ready_semaphores_[current_frame_], ...):
\* an acquisition that returns an image queues the signal of the semaphore.
\* VK_ERROR_OUT_OF_DATE_KHR calls RecreateSwapChain; any other failure
\* returns false.
AcquireSignalsImageReady ==
  /\ pc = "vkAcquireNextImageKHR"
  /\ \E r \in VkResults :
       /\ result' = r
       /\ IF AcquireOutOfDate(r)
            THEN /\ pc' = "RecreateSwapChain"
                 /\ UNCHANGED <<image_ready_semaphores_, ops, draw_ret>>
            ELSE IF AcquireFailed(r)
            THEN /\ pc' = "MainLoopReturned"
                 /\ draw_ret' = "false"
                 /\ UNCHANGED <<image_ready_semaphores_, ops>>
            ELSE IF image_ready_semaphores_[current_frame_ + 1]
            THEN /\ pc' = "undefined"
                 /\ UNCHANGED <<image_ready_semaphores_, ops, draw_ret>>
            ELSE /\ image_ready_semaphores_' =
                      SetSemaphore(image_ready_semaphores_, current_frame_, TRUE)
                 /\ ops' = Append(ops, "signal_image_ready")
                 /\ pc' = "vkQueueSubmit"
                 /\ UNCHANGED draw_ret
  /\ UNCHANGED <<framebuffer_resized_, current_frame_, syncVars,
                 swap_chain_images_, image_index, sizeVars, gpu_pending, live,
                 recorded, caller, recreate_ret, slot0, rc_trace, mainVars,
                 failed_call, callVars, loadVars, frameVars,
                 render_complete_semaphores_>>

\* The semaphores of the slot are in the state vkQueueSubmit requires: the
\* one it waits on is signaled and the one it signals is not.
SubmitSemaphoresValid(slot) ==
  /\ image_ready_semaphores_[slot + 1]
  /\ ~render_complete_semaphores_[slot + 1]

\* vkQueueSubmit waiting on image_ready_semaphores_[current_frame_] and
\* signaling render_complete_semaphores_[current_frame_]; a failed submission
\* leaves both as they were and DrawFrame returns false.
SubmitWaitsAndSignals ==
  /\ pc = "vkQueueSubmit"
  /\ \E ok \in BOOLEAN :
       IF ~ok
         THEN /\ pc' = "MainLoopReturned"
              /\ draw_ret' = "false"
              /\ UNCHANGED <<semVars, ops>>
       ELSE IF ~SubmitSemaphoresValid(current_frame_)
         THEN /\ pc' = "undefined"
              /\ UNCHANGED <<semVars, ops, draw_ret>>
         ELSE /\ image_ready_semaphores_' =
                   SetSemaphore(image_ready_semaphores_, current_frame_, FALSE)
              /\ render_complete_semaphores_' =
                   SetSemaphore(render_complete_semaphores_, current_frame_,
                                TRUE)
              /\ ops' = ops \o <<"wait_image_ready", "signal_render_complete">>
              /\ pc' = "vkQueuePresentKHR"
              /\ UNCHANGED draw_ret
  /\ UNCHANGED <<framebuffer_resized_, current_frame_, syncVars,
                 swap_chain_images_, localVars, sizeVars, gpu_pending, live,
                 recorded, caller, recreate_ret, slot0, rc_trace, mainVars,
                 failed_call, callVars, loadVars, frameVars>>

\* vkQueuePresentKHR waiting on render_complete_semaphores_[current_frame_],
\* and the checks on its result.
PresentWaitsRenderComplete ==
  /\ pc = "vkQueuePresentKHR"
  /\ \E r \in PresentResults :
       /\ result' = r
       /\ \E queued \in PresentQueuedWait(r) :
            IF queued
              THEN /\ render_complete_semaphores_' =
                        SetSemaphore(render_complete_semaphores_,
                                     current_frame_, FALSE)
                   /\ ops' = Append(ops, "wait_render_complete")
              ELSE UNCHANGED <<render_complete_semaphores_, ops>>
       /\ IF PresentNeedsRecreate(r, framebuffer_resized_)
            THEN /\ framebuffer_resized_' = FALSE
                 /\ pc' = "RecreateSwapChain"
                 /\ UNCHANGED <<current_frame_, draw_ret>>
            ELSE IF r # "VK_SUCCESS"
            THEN /\ pc' = "MainLoopReturned"
                 /\ draw_ret' = "false"
                 /\ UNCHANGED <<framebuffer_resized_, current_frame_>>
            ELSE /\ current_frame_' = NextFrame(current_frame_)
                 /\ pc' = "glfwPollEvents"
                 /\ draw_ret' = "true"
                 /\ UNCHANGED framebuffer_resized_
  /\ UNCHANGED <<syncVars, swap_chain_images_, image_index, sizeVars,
                 gpu_pending, live, recorded, caller, recreate_ret, slot0,
                 rc_trace, mainVars, failed_call, callVars, loadVars,
                 frameVars, image_ready_semaphores_>>

\* RecreateSwapChain(); return true;  RecreateSwapChain creates and destroys
\* no semaphore, and DrawFrame does not look at its result: after a rebuild
\* that failed the next DrawFrame uses objects that no longer exist.
RecreateKeepsSemaphores ==
  /\ pc = "RecreateSwapChain"
  /\ \E value \in {"true", "false"} :
       /\ recreate_ret' = value
       /\ pc' = IF value = "true" THEN "glfwPollEvents" ELSE "undefined"
  /\ draw_ret' = "true"
  /\ UNCHANGED <<framebuffer_resized_, current_frame_, syncVars,
                 swap_chain_images_, localVars, sizeVars, gpu_pending, live,
                 recorded, caller, ops, slot0, rc_trace, mainVars,
                 failed_call, callVars, loadVars, frameVars, semVars>>

NextSemaphores ==
  \/ PollEvents
  \/ AcquireSignalsImageReady
  \/ SubmitWaitsAndSignals
  \/ PresentWaitsRenderComplete
  \/ RecreateKeepsSemaphores

SpecSemaphores == InitSemaphores /\ [][NextSemaphores]_vars

----------------------------------------------------------------------------
\* The per-image vectors (SpecVectors)
\*
\* ret.sizes gives the size() of each vector that holds one element per
\* swap-chain image, ret.image_rendered_fences_ the image-to-fence table
\* (entry image index + 1: the slot whose fence is recorded, or
\* VK_NULL_HANDLE).  Init and RecreateSwapChain run their steps in the order
\* of InitOrder and RecreateOrder; DrawFrame is one step.

\* The vectors a create step resizes.
ResizedBy(step) ==
  CASE step = "CreateSwapChain" ->
         {"swap_chain_images_", "swap_chain_image_views_"}
    [] step = "CreateScenePassResources" -> {"swap_chain_framebuffers_"}
    [] step = "CreateShadowPassResources" -> {"shadow_frame_resources_"}
    [] step = "CreateCommandBuffers" -> {"command_buffers_"}
    [] step = "CreateDescriptorSets" ->
         {"descriptor_sets_", "vert_ubo_buffers_", "frag_ubo_buffers_"}
    [] OTHER -> {}

\* The vectors a destroy step clears.
ClearedBy(step) ==
  CASE step = "DestroyDescriptorSets" ->
         {"descriptor_sets_", "vert_ubo_buffers_", "frag_ubo_buffers_"}
    [] step = "DestroyCommandBuffers" -> {"command_buffers_"}
    [] step = "DestroyShadowPassResources" -> {"shadow_frame_resources_"}
    [] step = "DestroyScenePassResources" -> {"swap_chain_framebuffers_"}
    [] step = "DestroySwapChainImageViews" -> {"swap_chain_image_views_"}
    [] OTHER -> {}

\* The argument of the resize call on the vector: the image count the new
\* swap chain reports (n) for swap_chain_images_,
\* swap_chain_framebuffers_.size() for command_buffers_, and
\* swap_chain_images_.size() for every other vector.
NewSize(vector, sizes, n) ==
  CASE vector = "swap_chain_images_" -> n
    [] vector = "swap_chain_image_views_" -> n
    [] vector = "command_buffers_" -> sizes["swap_chain_framebuffers_"]
    [] OTHER -> sizes["swap_chain_images_"]

\* main has constructed the App: every vector is empty.
InitVectors ==
  /\ pc = InitOrder[1]
  /\ AppConstructed
  /\ NoLoad
  /\ NoFrame
  /\ NoSemaphores
  /\ args = [previous_images |-> 0]
  /\ ret = [sizes |->
              [v \in UNION {ResizedBy(step) : step \in Range(InitOrder)} |-> 0],
            image_rendered_fences_ |-> <<>>]

\* A step of Init or of RecreateSwapChain that creates objects: it resizes
\* its vectors, CreateSyncObjects resizes the image-to-fence table; a step
\* that fails makes its caller return false.
VectorsCreateStep ==
  /\ pc \in Range(InitOrder)
  /\ \E ok \in BOOLEAN,
        n \in IF pc = "CreateSwapChain" THEN ImageCounts ELSE {0} :
       IF ok
         THEN /\ ret' =
                   [sizes |->
                      [v \in DOMAIN ret.sizes |->
                         IF v \in ResizedBy(pc)
                           THEN NewSize(v, ret.sizes, n) ELSE ret.sizes[v]],
                    image_rendered_fences_ |->
                      IF pc = "CreateSyncObjects"
                        THEN Resize(ret.image_rendered_fences_,
                                    ret.sizes["swap_chain_images_"],
                                    VK_NULL_HANDLE)
                        ELSE ret.image_rendered_fences_]
              /\ pc' = IF StepAfter(pc) = "InitReturnsTrue"
                         THEN "DrawFrame" ELSE StepAfter(pc)
         ELSE /\ pc' = IF caller = "init" THEN "InitReturnedFalse"
                                          ELSE "undefined"
              /\ UNCHANGED ret
  /\ UNCHANGED <<framebuffer_resized_, current_frame_, syncVars,
                 swap_chain_images_, localVars, sizeVars, gpu_pending, live,
                 recorded, caller, retVars, ops, slot0, rc_trace, mainVars,
                 failed_call, args, loadVars, frameVars, semVars>>

\* A destroy call of RecreateSwapChain clears its vectors.
VectorsDestroyStep ==
  /\ pc \in Range(RecreateOrder) \ Range(InitOrder)
  /\ ret' = [ret EXCEPT !.sizes =
               [v \in DOMAIN ret.sizes |->
                  IF v \in ClearedBy(pc) THEN 0 ELSE ret.sizes[v]]]
  /\ pc' = RcNext(pc)
  /\ UNCHANGED <<framebuffer_resized_, current_frame_, syncVars,
                 swap_chain_images_, localVars, sizeVars, gpu_pending, live,
                 recorded, caller, retVars, ops, slot0, rc_trace, mainVars,
                 failed_call, args, loadVars, frameVars, semVars>>

\* image_rendered_fences_.resize(swap_chain_images_.size(), VK_NULL_HANDLE);
\* return true;  at the end of RecreateSwapChain
VectorsResizeFences ==
  /\ pc = "ResizeImageRenderedFences"
  /\ ret' = [ret EXCEPT !.image_rendered_fences_ =
               Resize(@, ret.sizes["swap_chain_images_"], VK_NULL_HANDLE)]
  /\ pc' = "DrawFrame"
  /\ UNCHANGED <<framebuffer_resized_, current_frame_, syncVars,
                 swap_chain_images_, localVars, sizeVars, gpu_pending, live,
                 recorded, caller, retVars, ops, slot0, rc_trace, mainVars,
                 failed_call, args, loadVars, frameVars, semVars>>

\* One call of DrawFrame: the acquire returns an image index below the image
\* count; on VK_ERROR_OUT_OF_DATE_KHR RecreateSwapChain is called; otherwise
\* the slot's fence is recorded for the image, and after the present either
\* RecreateSwapChain is called or the slot advances.  A failure ends the
\* loop.
VectorsDrawFrame ==
  /\ pc = "DrawFrame"
  /\ \E acquired \in VkResults, presented \in VkResults, resized \in BOOLEAN,
        k \in 0..(ret.sizes["swap_chain_images_"] - 1) :
       LET recreate ==
             /\ pc' = RecreateOrder[1]
             /\ caller' = "recreate"
             /\ args' = [previous_images |-> ret.sizes["swap_chain_images_"]]
           recorded_k ==
             ret' = [ret EXCEPT !.image_rendered_fences_[k + 1] =
                                  current_frame_]
       IN  IF AcquireOutOfDate(acquired)
             THEN /\ recreate
                  /\ UNCHANGED <<ret, current_frame_>>
           ELSE IF AcquireFailed(acquired)
             THEN /\ pc' = "MainLoopReturned"
                  /\ UNCHANGED <<ret, current_frame_, caller, args>>
           ELSE IF ~(k < Len(ret.image_rendered_fences_))
             THEN /\ pc' = "undefined"
                  /\ UNCHANGED <<ret, current_frame_, caller, args>>
           ELSE IF PresentNeedsRecreate(presented, resized)
             THEN /\ recorded_k
                  /\ recreate
                  /\ UNCHANGED current_frame_
           ELSE IF presented # "VK_SUCCESS"
             THEN /\ recorded_k
                  /\ pc' = "MainLoopReturned"
                  /\ UNCHANGED <<current_frame_, caller, args>>
             ELSE /\ recorded_k
                  /\ current_frame_' = NextFrame(current_frame_)
                  /\ UNCHANGED <<pc, caller, args>>
  /\ UNCHANGED <<framebuffer_resized_, syncVars, swap_chain_images_,
                 localVars, sizeVars, gpu_pending, live, recorded, retVars,
                 ops, slot0, rc_trace, mainVars, failed_call, loadVars,
                 frameVars, semVars>>

NextVectors ==
  \/ VectorsCreateStep
  \/ VectorsDestroyStep
  \/ VectorsResizeFences
  \/ VectorsDrawFrame

SpecVectors == InitVectors /\ [][NextVectors]_vars

----------------------------------------------------------------------------
\* Live Vulkan objects by kind (SpecObjects)
\*
\* ret.counts gives, for every kind of object, how many objects created by
\* the program have not been destroyed; ret.images is
\* swap_chain_images_.size().  args.after_init keeps the counts at the moment
\* Init returned true, args.init_images the image count then.  A step of Init
\* or of RecreateSwapChain is its sequence of create and destroy calls, each
\* a pair <<kind, number of objects>>, negative when the call destroys.

ObjectKinds ==
  {"VkInstance", "VkSurfaceKHR", "VkDevice", "VkSwapchainKHR", "VkImageView",
   "VkRenderPass", "VkShaderModule", "VkDescriptorSetLayout",
   "VkPipelineLayout", "VkPipeline", "VkImage", "VkDeviceMemory",
   "VkFramebuffer", "VkCommandPool", "VkCommandBuffer", "VkDescriptorPool",
   "VkDescriptorSet", "VkBuffer", "VkSampler", "VkSemaphore", "VkFence"}

\* Variant: the shader modules outlive the pipeline build.
PipelineCalls_KeepShaderModules ==
  <<<<"VkShaderModule", 2>>, <<"VkDescriptorSetLayout", 1>>,
    <<"VkPipelineLayout", 1>>, <<"VkPipeline", 1>>>>

\* bool App::CreatePipeline() and bool App::CreateShadowPipeline(): two
\* shader modules, the descriptor set layout, the pipeline layout, the
\* pipeline, then vkDestroyShaderModule for each module.
PipelineCalls ==
  <<<<"VkShaderModule", 2>>, <<"VkDescriptorSetLayout", 1>>,
    <<"VkPipelineLayout", 1>>, <<"VkPipeline", 1>>, <<"VkShaderModule", -2>>>>

\* The calls of a create step, in source order, with n swap-chain images
\* (for CreateSwapChain: the count the new swap chain reports).
CreateCalls(step, n) ==
  CASE step = "InitInstanceAndSurface" ->
         <<<<"VkInstance", 1>>, <<"VkSurfaceKHR", 1>>>>
    [] step = "CreateDevice" -> <<<<"VkDevice", 1>>>>
    [] step = "CreateSwapChain" ->
         <<<<"VkSwapchainKHR", 1>>, <<"VkImageView", n>>>>
    [] step = "CreateScenePassResources" ->
         <<<<"VkRenderPass", 1>>>> \o PipelineCalls \o
         <<<<"VkImage", 1>>, <<"VkDeviceMemory", 1>>, <<"VkImageView", 1>>,
           <<"VkImage", 1>>, <<"VkDeviceMemory", 1>>, <<"VkImageView", 1>>,
           <<"VkFramebuffer", n>>>>
    [] step = "CreateShadowPassResources" ->
         <<<<"VkRenderPass", 1>>>> \o PipelineCalls \o
         <<<<"VkImage", n>>, <<"VkDeviceMemory", n>>,
           <<"VkImageView", 6 * n>>, <<"VkFramebuffer", 6 * n>>,
           <<"VkImageView", n>>>>
    [] step = "CreateCommandPool" -> <<<<"VkCommandPool", 1>>>>
    [] step = "CreateCommandBuffers" -> <<<<"VkCommandBuffer", n>>>>
    [] step = "CreateDescriptorSets" ->
         <<<<"VkDescriptorPool", 1>>, <<"VkDescriptorSet", n>>,
           <<"VkBuffer", n>>, <<"VkDeviceMemory", n>>,
           <<"VkBuffer", n>>, <<"VkDeviceMemory", n>>, <<"VkSampler", 1>>>>
    [] step = "CreateVertexBuffers" ->
         <<<<"VkBuffer", 4>>, <<"VkDeviceMemory", 4>>,
           <<"VkCommandBuffer", 4>>, <<"VkBuffer", 4>>,
           <<"VkDeviceMemory", 4>>, <<"VkBuffer", -4>>,
           <<"VkDeviceMemory", -4>>, <<"VkCommandBuffer", -4>>>>
    [] step = "CreateSyncObjects" ->
         <<<<"VkSemaphore", 2 * kMaxFramesInFlight>>,
           <<"VkFence", kMaxFramesInFlight>>>>
    [] OTHER -> <<>>

\* The calls of a destroy step of RecreateSwapChain, with n swap-chain
\* images.  The descriptor sets go with their pool.
DestroyCalls(step, n) ==
  CASE step = "DestroyDescriptorSets" ->
         <<<<"VkSampler", -1>>, <<"VkBuffer", -n>>, <<"VkDeviceMemory", -n>>,
           <<"VkBuffer", -n>>, <<"VkDeviceMemory", -n>>,
           <<"VkDescriptorPool", -1>>, <<"VkDescriptorSet", -n>>>>
    [] step = "DestroyCommandBuffers" -> <<<<"VkCommandBuffer", -n>>>>
    [] step = "DestroyShadowPassResources" ->
         <<<<"VkImageView", -n>>, <<"VkFramebuffer", -(6 * n)>>,
           <<"VkImageView", -(6 * n)>>, <<"VkImage", -n>>,
           <<"VkDeviceMemory", -n>>, <<"VkPipeline", -1>>,
           <<"VkPipelineLayout", -1>>, <<"VkDescriptorSetLayout", -1>>,
           <<"VkRenderPass", -1>>>>
    [] step = "DestroyScenePassResources" ->
         <<<<"VkFramebuffer", -n>>, <<"VkImageView", -1>>, <<"VkImage", -1>>,
           <<"VkDeviceMemory", -1>>, <<"VkImageView", -1>>, <<"VkImage", -1>>,
           <<"VkDeviceMemory", -1>>, <<"VkPipeline", -1>>,
           <<"VkPipelineLayout", -1>>, <<"VkDescriptorSetLayout", -1>>,
           <<"VkRenderPass", -1>>>>
    [] step = "DestroySwapChainImageViews" -> <<<<"VkImageView", -n>>>>
    [] step = "DestroySwapChain" -> <<<<"VkSwapchainKHR", -1>>>>
    [] OTHER -> <<>>

\* The counts after the calls have been made.
RECURSIVE ApplyCalls(_, _)
ApplyCalls(counts, calls) ==
  IF calls = <<>> THEN counts
  ELSE ApplyCalls([counts EXCEPT ![calls[1][1]] = @ + calls[1][2]],
                  Tail(calls))

\* main has constructed the App: nothing has been created.
InitObjects ==
  /\ pc = InitOrder[1]
  /\ AppConstructed
  /\ NoLoad
  /\ NoFrame
  /\ NoSemaphores
  /\ args = [after_init |-> [k \in ObjectKinds |-> 0], init_images |-> 0]
  /\ ret = [counts |-> [k \in ObjectKinds |-> 0], images |-> 0]

\* A create step of Init or of RecreateSwapChain.  Either every call is made,
\* or a creating call fails after the calls before it were made: the step
\* returns false, and so does its caller, except that a failed buffer
\* creation goes unnoticed and the buffer is used.  A step that creates
\* nothing can fail too.
ObjectsCreateStep ==
  /\ pc \in Range(InitOrder)
  /\ \E n \in IF pc = "CreateSwapChain" THEN ImageCounts ELSE {ret.images} :
       LET calls == CreateCalls(pc, n)
           returned_false ==
             IF caller = "init" THEN "InitReturnedFalse"
                                ELSE "RecreateReturnedFalse"
       IN  \E made \in 0..Len(calls), ok \in BOOLEAN :
             IF made = Len(calls) /\ ok
               THEN /\ ret' = [counts |-> ApplyCalls(ret.counts, calls),
                               images |-> n]
                    /\ IF StepAfter(pc) = "InitReturnsTrue"
                         THEN /\ pc' = "DrawFrame"
                              /\ args' = [after_init |-> ret'.counts,
                                          init_images |-> n]
                         ELSE /\ pc' = StepAfter(pc)
                              /\ UNCHANGED args
               ELSE /\ ~ok
                    /\ \/ calls = <<>>
                       \/ made < Len(calls) /\ calls[made + 1][2] > 0
                    /\ ret' = [counts |->
                                 ApplyCalls(ret.counts, SubSeq(calls, 1, made)),
                               images |-> n]
                    /\ pc' = IF calls # <<>> /\ made < Len(calls)
                                /\ calls[made + 1][1] = "VkBuffer"
                               THEN "undefined" ELSE returned_false
                    /\ UNCHANGED args
  /\ UNCHANGED <<framebuffer_resized_, current_frame_, syncVars,
                 swap_chain_images_, localVars, sizeVars, gpu_pending, live,
                 recorded, caller, retVars, ops, slot0, rc_trace, mainVars,
                 failed_call, loadVars, frameVars, semVars>>

\* A destroy call of RecreateSwapChain.
ObjectsDestroyStep ==
  /\ pc \in Range(RecreateOrder) \ Range(InitOrder)
  /\ ret' = [ret EXCEPT !.counts =
               ApplyCalls(@, DestroyCalls(pc, ret.images))]
  /\ pc' = RcNext(pc)
  /\ UNCHANGED <<framebuffer_resized_, current_frame_, syncVars,
                 swap_chain_images_, localVars, sizeVars, gpu_pending, live,
                 recorded, caller, retVars, ops, slot0, rc_trace, mainVars,
                 failed_call, args, loadVars, frameVars, semVars>>

\* The end of RecreateSwapChain (the resize of image_rendered_fences_ creates
\* nothing) and the return to MainLoop.
ObjectsRecreateReturnsTrue ==
  /\ pc = "ResizeImageRenderedFences"
  /\ pc' = "DrawFrame"
  /\ UNCHANGED <<framebuffer_resized_, current_frame_, syncVars,
                 swap_chain_images_, localVars, sizeVars, gpu_pending, live,
                 recorded, caller, retVars, ops, slot0, rc_trace, mainVars,
                 failed_call, args, ret, loadVars, frameVars, semVars>>

\* A call of DrawFrame that calls RecreateSwapChain; any other call of
\* DrawFrame creates and destroys nothing.
ObjectsDrawFrame ==
  /\ pc = "DrawFrame"
  /\ pc' = RecreateOrder[1]
  /\ caller' = "recreate"
  /\ UNCHANGED <<framebuffer_resized_, current_frame_, syncVars,
                 swap_chain_images_, localVars, sizeVars, gpu_pending, live,
                 recorded, retVars, ops, slot0, rc_trace, mainVars,
                 failed_call, args, ret, loadVars, frameVars, semVars>>

NextObjects ==
  \/ ObjectsCreateStep
  \/ ObjectsDestroyStep
  \/ ObjectsRecreateReturnsTrue
  \/ ObjectsDrawFrame

SpecObjects == InitObjects /\ [][NextObjects]_vars

----------------------------------------------------------------------------
\* The frame loop under fair scheduling (SpecLoop)
\*
\* The loop of MainLoop from the state in which App::Init returned true, with
\* the actions of Spec.  The CPU thread goes on to its next statement whenever
\* that statement can complete, and the GPU completes what was submitted.

\* App::Init has returned true and main calls MainLoop.
InitLoop ==
  /\ pc = "MainLoop"
  /\ framebuffer_resized_ = FALSE
  /\ current_frame_ = 0
  /\ frame_ready_fences_ = CreatedFences
  /\ swap_chain_images_ \in ImageCounts
  /\ image_rendered_fences_ = [i \in 1..swap_chain_images_ |-> VK_NULL_HANDLE]
  /\ image_index = VK_NULL_HANDLE
  /\ result = "NONE"
  /\ width = 0
  /\ height = 0
  /\ gpu_pending = <<>>
  /\ live = SwapChainGroups \cup PermanentGroups
  /\ recorded = TRUE
  /\ caller = "init"
  /\ recreate_ret = "none"
  /\ draw_ret = "none"
  /\ ops = <<>>
  /\ slot0 = 0
  /\ rc_trace = <<>>
  /\ init_ret = "true"
  /\ init_trace = InitOrder
  /\ failed_call = "none"
  /\ exit_code = "none"
  /\ NoCall
  /\ NoLoad
  /\ NoFrame
  /\ NoSemaphores

NextLoop ==
  \/ GpuComplete
  \/ MainLoop
  \/ MainLoopWaitIdle
  \/ Destroy
  \/ WaitFrameReady
  \/ Acquire
  \/ WaitImageRendered
  \/ Submit
  \/ Present
  \/ InvalidUsage
  \/ RecreateSwapChain
  \/ RecreateSizeLoop
  \/ RecreateWaitIdle
  \/ DestroyDescriptorSets
  \/ DestroyCommandBuffers
  \/ DestroyShadowPassResources
  \/ DestroyScenePassResources
  \/ DestroySwapChainImageViews
  \/ DestroySwapChain
  \/ CreateSwapChain
  \/ CreateScenePassResources
  \/ CreateShadowPassResources
  \/ CreateDescriptorSets
  \/ CreateCommandBuffers
  \/ RecordCommandBuffers
  \/ ResizeImageRenderedFences

SpecLoop ==
  /\ InitLoop
  /\ [][NextLoop]_vars
  /\ WF_pc(NextLoop)
  /\ WF_gpu_pending(GpuComplete)

----------------------------------------------------------------------------
\* Properties

\* The order of RecreateSwapChain as claimed.
C10_ClaimedOrder ==
  <<"vkDeviceWaitIdle",
    "DestroyDescriptorSets", "DestroyCommandBuffers",
    "DestroyShadowPassResources", "DestroyScenePassResources",
    "DestroySwapChainImageViews", "DestroySwapChain",
    "CreateSwapChain", "CreateScenePassResources",
    "CreateShadowPassResources", "CreateDescriptorSets",
    "CreateCommandBuffers", "RecordCommandBuffers">>

RecreatePcs ==
  {"RecreateSwapChain", "RecreateSizeLoop", "RecreateWaitIdle",
   "ResizeImageRenderedFences"} \cup Range(C10_ClaimedOrder)

\* C1: in every reachable state the number of submitted command buffers
\* whose frame-ready fence has not signaled is at most kMaxFramesInFlight (3).
C1_FrameSlotBound ==
  Cardinality({i \in 1..Len(gpu_pending) :
                 ~frame_ready_fences_[gpu_pending[i].fence]}) <= 3
  /\ Len(gpu_pending) <= 3

\* Three command buffers are in flight at once.
C1_Witness ==
  /\ Len(gpu_pending) = 3
  /\ \A s \in Slots : ~frame_ready_fences_[s]

\* C2: the command buffer of image k is never submitted while an earlier
\* submission of the same command buffer is still executing: no two pending
\* submissions carry the same command buffer, and when DrawFrame is about to
\* submit for image k (it has waited on the fence recorded for k) no pending
\* submission carries k's command buffer; for every image count.
C2_NoConcurrentCommandBuffer ==
  /\ \A i, j \in 1..Len(gpu_pending) :
       i # j => gpu_pending[i].cmd # gpu_pending[j].cmd
  /\ pc = "Submit" =>
       /\ \A i \in 1..Len(gpu_pending) : gpu_pending[i].cmd # image_index
       /\ {"wait_image", "associate"} \subseteq Range(ops)

\* With fewer images than slots, DrawFrame is about to submit for an image
\* in its third slot while the other image's command buffer is in flight.
C2_Witness ==
  /\ pc = "Submit"
  /\ swap_chain_images_ < kMaxFramesInFlight
  /\ current_frame_ = 2
  /\ Len(gpu_pending) = swap_chain_images_ - 1
  /\ \A i \in 1..Len(image_rendered_fences_) :
       image_rendered_fences_[i] # VK_NULL_HANDLE

\* C3: no object is destroyed while a submitted command buffer is still
\* executing: every step that destroys an object, in RecreateSwapChain and in
\* Destroy after MainLoop, happens with no submission pending, and the first
\* step of a recreation is the device-idle wait.
C3_IdleBeforeDestroy ==
  [][ /\ (live' \subseteq live /\ live' # live) =>
           (gpu_pending = <<>> /\ gpu_pending' = <<>>)
      /\ (rc_trace' # <<>> => rc_trace'[1] = "vkDeviceWaitIdle") ]_vars

\* The loop ended because DrawFrame failed, frames had been submitted, and
\* Destroy has run.
C3_Witness ==
  /\ pc = "done"
  /\ live = {}
  /\ draw_ret = "false"
  /\ \E i \in 1..Len(image_rendered_fences_) :
       image_rendered_fences_[i] # VK_NULL_HANDLE

\* C4: when acquisition returns OUT_OF_DATE, DrawFrame calls
\* RecreateSwapChain and returns true without resetting the slot's fence,
\* submitting, presenting or advancing the slot index.
C4_AcquireOutOfDate ==
  (result = "VK_ERROR_OUT_OF_DATE_KHR" /\ "present" \notin Range(ops)) =>
    /\ caller = "acquire"
    /\ pc \in RecreatePcs \cup {"MainLoop", "undefined"}
    /\ pc = "MainLoop" => (draw_ret = "true" /\ "recreate" \in Range(ops))
    /\ Range(ops) \subseteq {"wait_frame", "acquire", "recreate"}
    /\ current_frame_ = slot0
    /\ frame_ready_fences_[current_frame_]
    /\ \A i \in 1..Len(gpu_pending) : gpu_pending[i].fence # current_frame_

\* An iteration in slot 1 ended through the acquire path's recreation.
C4_Witness ==
  /\ pc = "MainLoop"
  /\ result = "VK_ERROR_OUT_OF_DATE_KHR"
  /\ caller = "acquire"
  /\ recreate_ret = "true"
  /\ current_frame_ = 1

\* C5 (as claimed): whenever vkQueueSubmit fails, or vkQueuePresentKHR
\* returns a result other than SUCCESS, OUT_OF_DATE or SUBOPTIMAL, DrawFrame
\* returns false and MainLoop stops, for every value of the resize flag.
C5_FailureStopsLoop ==
  ( \/ "submit_failed" \in Range(ops)
    \/ /\ "present" \in Range(ops)
       /\ result \notin {"VK_SUCCESS", "VK_ERROR_OUT_OF_DATE_KHR",
                         "VK_SUBOPTIMAL_KHR"} ) =>
    (draw_ret = "false" /\ pc = "MainLoopWaitIdle")

\* C6 (as claimed): if a rebuild step of RecreateSwapChain fails, the frame
\* loop terminates, and no acquire, submit or present is issued against
\* partially rebuilt resources.
C6_RebuildFailureIsFatal ==
  /\ recreate_ret = "false" => (draw_ret = "false" /\ pc = "MainLoopWaitIdle")
  /\ pc \in {"Acquire", "Submit", "Present"} => Built

\* C7: in every iteration that reaches present, recreation is triggered
\* exactly when the present result is OUT_OF_DATE or SUBOPTIMAL or the resize
\* flag is set, and the flag is clear when the recreation routine starts.
C7_PresentRecreation ==
  [][ (pc = "Present" /\ pc' # "Present" /\ pc' # "undefined") =>
        /\ (pc' = "RecreateSwapChain") <=>
             (result' \in {"VK_ERROR_OUT_OF_DATE_KHR", "VK_SUBOPTIMAL_KHR"}
              \/ framebuffer_resized_)
        /\ pc' = "RecreateSwapChain" =>
             (~framebuffer_resized_' /\ caller' = "present") ]_vars

\* Present returned SUCCESS and the resize flag alone triggered recreation.
C7_Witness ==
  /\ pc = "RecreateSwapChain"
  /\ caller = "present"
  /\ result = "VK_SUCCESS"
  /\ ~framebuffer_resized_

\* C8 (as claimed): every iteration that submitted and presented has
\* advanced the slot index to (slot + 1) mod kMaxFramesInFlight when the next
\* iteration may start, recreation or not; the index stays in range.
C8_AlwaysAdvances ==
  /\ current_frame_ \in 0..2
  /\ (pc = "MainLoop" /\ "present" \in Range(ops) /\ draw_ret = "true") =>
       current_frame_ = (slot0 + 1) % 3

\* C8 (amended): an iteration that submitted and presented has advanced the
\* slot index to (slot + 1) mod kMaxFramesInFlight when its present step did
\* not trigger recreation, and has left it unchanged when it did; the index
\* stays in 0..kMaxFramesInFlight-1.
C8_AdvancesUnlessRecreated ==
  /\ current_frame_ \in 0..2
  /\ (pc = "MainLoop" /\ "present" \in Range(ops) /\ draw_ret = "true") =>
       IF "recreate" \in Range(ops)
         THEN current_frame_ = slot0
         ELSE current_frame_ = (slot0 + 1) % 3

\* The slot index wrapped from 2 to 0 after a presented frame.
C8_Witness ==
  /\ pc = "MainLoop"
  /\ "advance" \in Range(ops)
  /\ slot0 = 2
  /\ current_frame_ = 0

\* C9: when acquisition returns a result other than SUCCESS, SUBOPTIMAL or
\* OUT_OF_DATE, DrawFrame submits nothing and returns false and MainLoop
\* stops; after a SUBOPTIMAL acquisition DrawFrame goes on to submit and
\* present like after SUCCESS.
C9_AcquireResults ==
  ("acquire" \in Range(ops) /\ "present" \notin Range(ops)) =>
    /\ result \notin {"VK_SUCCESS", "VK_SUBOPTIMAL_KHR",
                      "VK_ERROR_OUT_OF_DATE_KHR"} =>
         /\ ops = <<"wait_frame", "acquire">>
         /\ draw_ret = "false"
         /\ pc = "MainLoopWaitIdle"
         /\ frame_ready_fences_[current_frame_]
    /\ result \in {"VK_SUCCESS", "VK_SUBOPTIMAL_KHR"} =>
         \/ pc \in {"WaitImageRendered", "Submit", "Present", "undefined"}
         \/ "submit_failed" \in Range(ops)

\* A frame acquired with SUBOPTIMAL has been submitted and is about to be
\* presented.
C9_Witness ==
  /\ pc = "Present"
  /\ result = "VK_SUBOPTIMAL_KHR"
  /\ "submit" \in Range(ops)

\* C10: RecreateSwapChain destroys descriptor sets, command buffers,
\* shadow-pass resources, scene-pass resources, image views, swap chain and
\* then rebuilds swap chain, scene pass, shadow pass, descriptor sets,
\* command buffers, re-record, in that order; at every point every existing
\* object has all the objects its creation depends on (nothing is destroyed
\* after, or created before, an object it depends on).
C10_RecreateOrder ==
  /\ Len(rc_trace) <= Len(C10_ClaimedOrder)
  /\ rc_trace = SubSeq(C10_ClaimedOrder, 1, Len(rc_trace))
  /\ \A g \in live : DependsOn(g) \subseteq live

\* A recreation ran every destroy and create step.
C10_Witness ==
  /\ pc = "ResizeImageRenderedFences"
  /\ Len(rc_trace) = 13
  /\ Built

\* C11: RecreateSwapChain waits for the device, destroys and creates nothing
\* until a framebuffer-size query has returned a nonzero width and a nonzero
\* height; while the last query returned a zero dimension it stays in the
\* loop, where it only pumps window events and queries the size again.
C11_NoWorkWhileZeroSize ==
  [][ /\ ( /\ pc \in RecreatePcs
           /\ caller \in {"acquire", "present"}
           /\ \/ rc_trace' # rc_trace
              \/ live' # live
              \/ recorded' # recorded
              \/ swap_chain_images_' # swap_chain_images_
              \/ image_rendered_fences_' # image_rendered_fences_ ) =>
             (width # 0 /\ height # 0)
      /\ (pc = "RecreateSizeLoop" /\ (width = 0 \/ height = 0)) =>
             /\ pc' = "RecreateSizeLoop"
             /\ UNCHANGED <<current_frame_, objVars, image_rendered_fences_,
                            rc_trace, ops, retVars>> ]_vars

\* The window has a nonzero width and a zero height, events have been pumped
\* inside the loop (the resize flag, cleared before the call, is set again)
\* and nothing has been destroyed.
C11_Witness ==
  /\ pc = "RecreateSizeLoop"
  /\ caller = "present"
  /\ framebuffer_resized_
  /\ width # 0
  /\ height = 0
  /\ rc_trace = <<>>
  /\ Built

\* C12 (as claimed): whenever a creation call made by a step of Init or of
\* RecreateSwapChain fails (uniform, vertex, index and staging buffers and
\* their memory included), the step reports failure: Init has returned false,
\* or RecreateSwapChain has returned false.
C12_CreationFailureReported ==
  failed_call # "none" =>
    IF caller = "init" THEN init_ret = "false" ELSE recreate_ret = "false"

\* The order of Init as claimed.
C13_ClaimedOrder ==
  <<"LoadModel", "InitInstanceAndSurface", "ChoosePhysicalDevice",
    "CreateDevice", "CreateSwapChain", "CreateScenePassResources",
    "CreateShadowPassResources", "CreateCommandPool", "CreateCommandBuffers",
    "CreateDescriptorSets", "CreateVertexBuffers", "RecordCommandBuffers",
    "CreateSyncObjects">>

\* C13: Init runs its steps in the fixed order model load, instance and
\* surface, physical device, logical device, swap chain, scene pass, shadow
\* pass, command pool, command buffers, descriptor sets, vertex buffers,
\* command recording, sync objects; when a step reports failure no later step
\* runs and Init returns false; Init returns true only if all thirteen steps
\* ran and reported success.
C13_InitOrder ==
  /\ Len(init_trace) <= 13
  /\ init_trace = SubSeq(C13_ClaimedOrder, 1, Len(init_trace))
  /\ (caller = "init" /\ failed_call = "checked") =>
       (init_ret = "false" /\ pc \in {"MainAfterInit", "exit"})
  /\ init_ret = "false" =>
       (caller = "init" /\ failed_call = "checked"
        /\ pc \in {"MainAfterInit", "exit"})
  /\ init_ret = "true" =>
       /\ init_trace = C13_ClaimedOrder
       /\ caller = "init" => (failed_call = "none" /\ Built)

\* Init returned false because its tenth step, descriptor sets, failed.
C13_Witness ==
  /\ pc = "MainAfterInit"
  /\ init_ret = "false"
  /\ Len(init_trace) = 10
  /\ init_trace[10] = "CreateDescriptorSets"
  /\ "DescriptorSets" \notin live

\* C14: when Init reports failure the process exits with a non-zero code and
\* the main loop is never entered; the process exits with code 0 after Init
\* succeeded, MainLoop returned and Destroy completed, and only then.
C14_ExitCodes ==
  /\ init_ret = "false" =>
       (pc \in {"MainAfterInit", "exit"} /\ ops = <<>> /\ draw_ret = "none")
  /\ pc = "exit" =>
       /\ init_ret = "false" => exit_code # 0
       /\ init_ret = "true" => (exit_code = 0 /\ live = {})
       /\ exit_code = 0 => (init_ret = "true" /\ live = {})
  /\ pc # "exit" => exit_code = "none"

\* The process exited with code 0 after frames were drawn.
C14_Witness ==
  /\ pc = "exit"
  /\ exit_code = 0
  /\ init_ret = "true"
  /\ draw_ret = "true"
  /\ \E i \in 1..Len(image_rendered_fences_) :
       image_rendered_fences_[i] # VK_NULL_HANDLE

\* C15: for every requirement bitmask, requested flag set and memory-type
\* table, the index selected is the lowest index whose bit is set in the
\* bitmask and whose property flags contain every requested flag; when no
\* index qualifies the function returns false without calling
\* vkAllocateMemory.
C15_MemoryTypeSelection ==
  pc = "AllocateMemoryForResourceReturned" =>
    LET Bit(x, b)  == (x \div 2^b) % 2 = 1
        Fits(i)    == /\ Bit(args.memoryTypeBits, i)
                      /\ \A b \in 0..(NumPropertyBits - 1) :
                           Bit(args.mem_properties, b) =>
                             Bit(args.memoryTypes[i + 1], b)
        Candidates == {i \in 0..(Len(args.memoryTypes) - 1) : Fits(i)}
    IN  IF Candidates = {}
          THEN /\ ret.value = FALSE
               /\ ret.memoryTypeIndex = -1
               /\ ret.vkAllocateMemory = "not called"
          ELSE /\ ret.memoryTypeIndex \in Candidates
               /\ \A i \in Candidates : ret.memoryTypeIndex <= i
               /\ ret.value = (ret.vkAllocateMemory = "VK_SUCCESS")

\* Both flags were requested; types 0 and 1 are allowed by the bitmask but
\* have only one of the flags, and type 2 was selected.
C15_Witness ==
  /\ pc = "AllocateMemoryForResourceReturned"
  /\ args.mem_properties = 3
  /\ args.memoryTypeBits = 7
  /\ Len(args.memoryTypes) = 3
  /\ args.memoryTypes[1] = 1
  /\ args.memoryTypes[2] = 2
  /\ ret.memoryTypeIndex = 2
  /\ ret.value

\* C16: ChooseSwapChainExtent returns the surface's current extent unchanged
\* when its width is not 0xFFFFFFFF; otherwise it returns the framebuffer
\* size with width and height each clamped into [minImageExtent,
\* maxImageExtent]; for min (100,100), max (4000,4000) and framebuffer
\* (50,6000) the result is (100,4000).
C16_ExtentClamping ==
  pc = "ChooseSwapChainExtentReturned" =>
    LET Clamped(r, v, lo, hi) ==
          /\ lo <= r /\ r <= hi
          /\ (lo <= v /\ v <= hi) => r = v
          /\ v < lo => r = lo
          /\ v > hi => r = hi
    IN  /\ args.currentExtent.width # UINT32_MAX => ret = args.currentExtent
        /\ args.currentExtent.width = UINT32_MAX =>
             /\ Clamped(ret.width, args.framebuffer.width,
                        args.minImageExtent.width, args.maxImageExtent.width)
             /\ Clamped(ret.height, args.framebuffer.height,
                        args.minImageExtent.height,
                        args.maxImageExtent.height)
        /\ ( /\ args.currentExtent.width = UINT32_MAX
             /\ args.minImageExtent = [width |-> 100, height |-> 100]
             /\ args.maxImageExtent = [width |-> 4000, height |-> 4000]
             /\ args.framebuffer = [width |-> 50, height |-> 6000] ) =>
             ret = [width |-> 100, height |-> 4000]

\* The example: sentinel width, limits (100,100)..(4000,4000), framebuffer
\* (50,6000), result (100,4000).
C16_Witness ==
  /\ pc = "ChooseSwapChainExtentReturned"
  /\ args.currentExtent.width = UINT32_MAX
  /\ args.minImageExtent = [width |-> 100, height |-> 100]
  /\ args.maxImageExtent = [width |-> 4000, height |-> 4000]
  /\ args.framebuffer = [width |-> 50, height |-> 6000]
  /\ ret = [width |-> 100, height |-> 4000]

\* C17 (as claimed): for every surface capability report the image count
\* requested is min(minImageCount + 1, maxImageCount); it is one more than
\* the minimum whenever the maximum allows it (a maximum of 0 sets no limit),
\* it never exceeds a maximum that is set, and it is never smaller than
\* minImageCount.
C17_ImageCount ==
  pc = "RequestImageCountReturned" =>
    /\ ret = IF args.minImageCount + 1 <= args.maxImageCount
               THEN args.minImageCount + 1
               ELSE args.maxImageCount
    /\ (args.maxImageCount = 0 \/ args.maxImageCount > args.minImageCount) =>
         ret = args.minImageCount + 1
    /\ args.maxImageCount # 0 => ret <= args.maxImageCount
    /\ ret >= args.minImageCount

\* C18 (as claimed): a quad face with 1-based indices (a,b,c,d), each naming
\* a declared vertex, is loaded as two triangles sharing the diagonal (a,c):
\* the six positions pushed are v_a, v_b, v_c, v_a, v_c, v_d (v_k the k-th
\* vertex declared) and the six index-buffer entries pushed are the next six
\* consecutive values; for the face 1 2 3 4 as first face the index buffer is
\* 0..5 over v1, v2, v3, v1, v3, v4.
C18_QuadSplit ==
  (next_line > 1 /\ pc # "undefined") =>
    LET line == file[next_line - 1]
        n    == Len(model.positions)
    IN  ( /\ line.kind = "f"
          /\ Len(line.idx) = 4
          /\ \A k \in 1..4 : line.idx[k] \in 1..Len(positions) ) =>
          /\ load_ret # "false"
          /\ n >= 6
          /\ SubSeq(model.positions, n - 5, n) =
               <<line.idx[1], line.idx[2], line.idx[3],
                 line.idx[1], line.idx[3], line.idx[4]>>
          /\ \A j \in 1..6 :
               model.index_buffer[n - 6 + j] = (n - 6 + j - 1) % 2^IndexBits

\* C19: a negative face index -j read after n vertices were declared resolves
\* to the (n - j + 1)-th declared vertex (f -1 -2 -3 after 5 vertices gives
\* vertices 5, 4, 3); a negative index reaching before the first declared
\* vertex makes the load fail.
C19_NegativeIndices ==
  next_line > 1 =>
    LET line   == file[next_line - 1]
        n      == Len(positions)
        len    == Len(model.positions)
        \* the position pushed for the k-th index of the face
        Pushed(k) == IF Len(line.idx) = 3
                       THEN model.positions[len - 3 + k]
                       ELSE IF k = 4 THEN model.positions[len]
                                     ELSE model.positions[len - 6 + k]
    IN  (line.kind = "f" /\ Len(line.idx) \in {3, 4}) =>
          /\ (\E k \in 1..Len(line.idx) : line.idx[k] < -n) =>
               (load_ret = "false" /\ pc = "LoadModelReturned")
          /\ (pc \in {"GetLine", "LoadModelReturned"} /\ load_ret # "false") =>
               \A k \in 1..Len(line.idx) :
                 line.idx[k] < 0 => Pushed(k) = n + line.idx[k] + 1

\* f -1 -2 -3 after five vertices pushed vertices 5, 4, 3.
C19_Witness ==
  /\ pc = "GetLine"
  /\ next_line = 7
  /\ Len(positions) = 5
  /\ file[6] = [kind |-> "f", idx |-> <<-1, -2, -3>>]
  /\ model.positions = <<5, 4, 3>>

\* C20: after a successful load of a file with T triangle faces and Q quad
\* faces, positions, normals, material_indices and index_buffer all have
\* length 3T + 6Q, and every index-buffer value is smaller than the number of
\* positions.
C20_ParallelArrays ==
  (pc = "LoadModelReturned" /\ load_ret = "true") =>
    LET Faces(size) ==
          Cardinality({k \in 1..Len(file) :
                         file[k].kind = "f" /\ Len(file[k].idx) = size})
        total == 3 * Faces(3) + 6 * Faces(4)
    IN  /\ Len(model.positions) = total
        /\ Len(model.normals) = total
        /\ Len(model.material_indices) = total
        /\ Len(model.index_buffer) = total
        /\ \A k \in 1..total : model.index_buffer[k] < total

\* A file with one triangle and three quads was loaded: 21 entries in each
\* vector.
C20_Witness ==
  /\ pc = "LoadModelReturned"
  /\ load_ret = "true"
  /\ Len(model.positions) = 21
  /\ Len(model.normals) = 21
  /\ Len(model.index_buffer) = 21
  /\ \E k \in 1..Len(file) : file[k].kind = "f" /\ Len(file[k].idx) = 3

\* C21: filling the fragment uniform block never stores to an entry of the
\* 20-entry material array at index 20 or above: with more than 20 materials
\* only the first 20 are copied, and with exactly 20 all 20 are copied and
\* the copy completes.
C21_MaterialTruncation ==
  /\ ret.out_of_bounds = {}
  /\ pc # "undefined"
  /\ pc = "MaterialsCopied" =>
       \A k \in 0..19 :
         IF k < args.materials THEN ret.materials[k] = k
                               ELSE ret.materials[k] = IndeterminateInt

\* C22: each recorded command buffer k holds, in this order and with no other
\* render pass, draw or barrier in between: six shadow render passes, pass i
\* (0..5) on the framebuffer of layer i of shadow cube k, pushing shadow matrix
\* i and drawing the full index count; Barrier A; one scene render pass
\* drawing the full index count; Barrier B.
C22_CommandBufferContents ==
  pc \in {"DrawFrame", "Executing"} =>
    \A k \in 0..(args.swap_chain_images - 1) :
      LET IsMark(c) == c.cmd \in {"vkCmdBeginRenderPass", "vkCmdPushConstants",
                                  "vkCmdDrawIndexed", "vkCmdEndRenderPass",
                                  "vkCmdPipelineBarrier"}
          marks == SelectSeq(command_buffers_[k + 1], IsMark)
      IN  /\ Len(marks) = 29
          /\ \A i \in 0..5 :
               /\ marks[4 * i + 1].cmd = "vkCmdBeginRenderPass"
               /\ marks[4 * i + 1].framebuffer.attachments =
                    <<[image |-> [name |-> "shadow_texture", index |-> k],
                       baseArrayLayer |-> i, layerCount |-> 1]>>
               /\ marks[4 * i + 2].cmd = "vkCmdPushConstants"
               /\ marks[4 * i + 2].shadow_mats_ = i
               /\ marks[4 * i + 3].cmd = "vkCmdDrawIndexed"
               /\ marks[4 * i + 3].indexCount = args.index_count
               /\ marks[4 * i + 4].cmd = "vkCmdEndRenderPass"
          /\ marks[25].cmd = "vkCmdPipelineBarrier"
          /\ marks[25].oldLayout =
               "VK_IMAGE_LAYOUT_DEPTH_STENCIL_ATTACHMENT_OPTIMAL"
          /\ marks[25].newLayout = "VK_IMAGE_LAYOUT_SHADER_READ_ONLY_OPTIMAL"
          /\ marks[26].cmd = "vkCmdBeginRenderPass"
          /\ marks[26].renderPass = "render_pass_"
          /\ marks[27].cmd = "vkCmdDrawIndexed"
          /\ marks[27].indexCount = args.index_count
          /\ marks[28].cmd = "vkCmdEndRenderPass"
          /\ marks[29].cmd = "vkCmdPipelineBarrier"
          /\ marks[29].oldLayout = "VK_IMAGE_LAYOUT_SHADER_READ_ONLY_OPTIMAL"
          /\ marks[29].newLayout =
               "VK_IMAGE_LAYOUT_DEPTH_STENCIL_ATTACHMENT_OPTIMAL"

\* Four command buffers were recorded for a model of six indices, each with
\* its 51 commands.
C22_Witness ==
  /\ pc = "DrawFrame"
  /\ args = [swap_chain_images |-> 4, index_count |-> 6]
  /\ Len(command_buffers_) = 4
  /\ \A k \in 1..4 : Len(command_buffers_[k]) = 51

\* C23: once the scene framebuffers are built, framebuffer i has its own color
\* attachment and its own depth attachment: no two scene framebuffers share a
\* color attachment image or a depth attachment image.
C23_AttachmentsPerImage ==
  pc \in {"CreateShadowFramebuffers", "AllocateCommandBuffers",
          "UpdateDescriptorSets", "RecordEachCommandBuffer", "DrawFrame",
          "Executing"} =>
    \A i, j \in 1..Len(swap_chain_framebuffers_) :
      i # j =>
        /\ swap_chain_framebuffers_[i].attachments[1].image #
             swap_chain_framebuffers_[j].attachments[1].image
        /\ swap_chain_framebuffers_[i].attachments[2].image #
             swap_chain_framebuffers_[j].attachments[2].image

\* C28: whenever command buffer k executes, all six layers of shadow cube k
\* are in the depth-stencil-attachment layout when Barrier A executes, in the
\* shader-read-only layout (the layout the descriptor declares) when the scene
\* pass draws, and in the depth-stencil-attachment layout when the command
\* buffer ends; each barrier covers the six layers of cube k and its old
\* layout is the layout every one of them is in.
C28_ShadowLayouts ==
  pc = "Executing" =>
    LET k  == executing.command_buffer
        cb == command_buffers_[k + 1]
        AllIn(texture, layout) ==
          \A layer \in 1..6 : shadow_layouts[texture + 1][layer] = layout
        IsBarrier(c) == c.cmd = "vkCmdPipelineBarrier"
        barriers_before ==
          Len(SelectSeq(SubSeq(cb, 1, executing.pos - 1), IsBarrier))
    IN  IF executing.pos > Len(cb)
          THEN AllIn(k, "VK_IMAGE_LAYOUT_DEPTH_STENCIL_ATTACHMENT_OPTIMAL")
          ELSE LET c == cb[executing.pos]
               IN  /\ IsBarrier(c) =>
                        /\ c.image = [name |-> "shadow_texture", index |-> k]
                        /\ c.baseArrayLayer = 0
                        /\ c.layerCount = 6
                        /\ AllIn(k, c.oldLayout)
                        /\ barriers_before = 0 =>
                             AllIn(k,
                               "VK_IMAGE_LAYOUT_DEPTH_STENCIL_ATTACHMENT_OPTIMAL")
                   /\ ( /\ c.cmd = "vkCmdDrawIndexed"
                        /\ executing.framebuffer.renderPass = "render_pass_" ) =>
                        LET sampled ==
                              descriptor_sets_[executing.descriptor_set + 1].binding2
                        IN  /\ AllIn(k,
                                 "VK_IMAGE_LAYOUT_SHADER_READ_ONLY_OPTIMAL")
                            /\ AllIn(sampled.imageView.image.index,
                                     sampled.imageLayout)

\* A later execution of command buffer 0 is under way: its second shadow pass
\* is about to begin and the layers not yet rendered in this execution are in
\* the depth-stencil-attachment layout the previous execution left.
C28_Witness ==
  /\ pc = "Executing"
  /\ executing.command_buffer = 0
  /\ executing.pos = 8
  /\ \A layer \in 1..6 :
       shadow_layouts[1][layer] =
         "VK_IMAGE_LAYOUT_DEPTH_STENCIL_ATTACHMENT_OPTIMAL"

\* C30: in an iteration that acquired image k, the command buffer submitted is
\* command buffer k; its scene pass renders into the framebuffer whose resolve
\* attachment is swap-chain image k and binds descriptor set k; its shadow
\* passes write shadow cube k and descriptor set k samples shadow cube k; the
\* image presented is image k.
C30_FrameUsesImageK ==
  (pc \in {"DrawFrame", "Executing"} /\ DOMAIN frame_log # {}) =>
    LET k  == frame_log.image_index
        cb == command_buffers_[frame_log.command_buffer + 1]
        cube == [name |-> "shadow_texture", index |-> k]
    IN  /\ frame_log.command_buffer = k
        /\ \A j \in 1..Len(cb) :
             /\ ( /\ cb[j].cmd = "vkCmdBeginRenderPass"
                  /\ cb[j].renderPass = "render_pass_" ) =>
                  cb[j].framebuffer.attachments[3].image =
                    [name |-> "swap_chain_images_", index |-> k]
             /\ ( /\ cb[j].cmd = "vkCmdBeginRenderPass"
                  /\ cb[j].renderPass = "shadow_render_pass_" ) =>
                  cb[j].framebuffer.attachments[1].image = cube
             /\ cb[j].cmd = "vkCmdBindDescriptorSets" =>
                  /\ cb[j].descriptor_sets_ = k
                  /\ descriptor_sets_[k + 1].binding2.imageView.image = cube
        /\ pc = "DrawFrame" => frame_log.presented = k
        /\ pc = "Executing" => frame_log.presented = VK_NULL_HANDLE

\* An iteration acquired image 3 of 4, submitted command buffer 3 and
\* presented image 3.
C30_Witness ==
  /\ pc = "DrawFrame"
  /\ DOMAIN frame_log # {}
  /\ args.swap_chain_images = 4
  /\ frame_log = [image_index |-> 3, command_buffer |-> 3, presented |-> 3]

\* C24: ChoosePhysicalDevice returns true with the first enumerated device
\* that has a graphics-capable queue family, a queue family able to present,
\* the swap-chain extension, at least one surface format, at least one
\* present mode and anisotropic sampling; it returns false when no enumerated
\* device has all of these, in particular when none is enumerated.
C24_FirstSuitableDevice ==
  pc = "ChoosePhysicalDeviceReturned" =>
    LET Qualifies(d) ==
          /\ \E i \in 1..Len(d.families) : d.families[i].queueFlags \in {1, 3}
          /\ \E i \in 1..Len(d.families) : d.families[i].present_support
          /\ "VK_KHR_swapchain" \in d.available_extensions
          /\ d.surface_formats_count >= 1
          /\ d.present_modes_count >= 1
          /\ d.samplerAnisotropy
        qualifying == {i \in 1..Len(args) : Qualifies(args[i])}
    IN  /\ ret.value = (qualifying # {})
        /\ ret.value =>
             /\ ret.physical_device_ + 1 \in qualifying
             /\ \A i \in qualifying : ret.physical_device_ + 1 <= i

\* Two devices are enumerated; the first lacks anisotropic sampling only, the
\* second has graphics and present in different queue families and is chosen.
C24_Witness ==
  /\ pc = "ChoosePhysicalDeviceReturned"
  /\ Len(args) = 2
  /\ Len(args[1].families) = 1
  /\ args[1].families[1].present_support
  /\ args[1].families[1].queueFlags = 3
  /\ "VK_KHR_swapchain" \in args[1].available_extensions
  /\ args[1].surface_formats_count = 2
  /\ args[1].present_modes_count = 3
  /\ ~args[1].samplerAnisotropy
  /\ Len(args[2].families) = 2
  /\ ret = [value |-> TRUE, physical_device_ |-> 1]


\* C25: a face line whose number of indices is neither 3 nor 4 makes LoadModel
\* return false, and nothing is pushed for it: the model holds exactly the
\* three positions of every earlier triangle and the six of every earlier quad.
C25_OtherFaceSizesRejected ==
  (next_line > 1 /\ file[next_line - 1].kind = "f"
     /\ Len(file[next_line - 1].idx) \notin {3, 4})
    => /\ pc = "LoadModelReturned"
       /\ load_ret = "false"
       /\ LET Pushed[j \in 0..(next_line - 2)] ==
                IF j = 0 THEN 0
                ELSE Pushed[j - 1]
                     + (IF file[j].kind # "f" THEN 0
                        ELSE IF Len(file[j].idx) = 3 THEN 3 ELSE 6)
          IN  /\ Len(model.positions) = Pushed[next_line - 2]
              /\ Len(model.normals) = Pushed[next_line - 2]
              /\ Len(model.index_buffer) = Pushed[next_line - 2]

\* C25 witness: a face of five indices, each naming a declared vertex, has
\* been read after the vertices and LoadModel returned false with an empty
\* model.
C25_Witness ==
  /\ pc = "LoadModelReturned"
  /\ load_ret = "false"
  /\ Len(positions) >= 1
  /\ next_line = Len(positions) + 2
  /\ file[next_line - 1].kind = "f"
  /\ file[next_line - 1].idx = <<1, -1, 1, -1, 1>>
  /\ \A k \in 1..5 : face_pos_indices[k] \in 0..(Len(positions) - 1)
  /\ model.positions = <<>>


\* C26: the operations of one DrawFrame call are issued in the order wait on
\* the slot's fence, acquire, wait on the image's fence, associate, reset,
\* submit, present; the submit is reached only when the acquire of the same
\* call returned VK_SUCCESS or VK_SUBOPTIMAL_KHR, and the present only when
\* the submit of the same call succeeded.
C26_DrawFrameOrder ==
  LET order  == <<"wait_frame", "acquire", "wait_image", "associate", "reset",
                  "submit", "present">>
      failed == <<"wait_frame", "acquire", "wait_image", "associate", "reset",
                  "submit_failed">>
      issued == SelectSeq(ops, LAMBDA o : o \notin {"recreate", "advance"})
      IsPrefix(s, t) == Len(s) <= Len(t) /\ \A i \in 1..Len(s) : s[i] = t[i]
  IN  /\ IsPrefix(issued, order) \/ issued = failed
      /\ pc = "Submit" =>
           /\ issued = SubSeq(order, 1, 5)
           /\ result \in {"VK_SUCCESS", "VK_SUBOPTIMAL_KHR"}
      /\ pc = "Present" =>
           /\ issued = SubSeq(order, 1, 6)
           /\ result \in {"VK_SUCCESS", "VK_SUBOPTIMAL_KHR"}
      /\ "present" \in Range(ops) => "submit" \in Range(ops)
      /\ "submit_failed" \in Range(ops) => "present" \notin Range(ops)

\* C26 witness: a DrawFrame call whose acquire returned VK_SUBOPTIMAL_KHR has
\* issued every operation up to the submit and is about to present.
C26_Witness ==
  /\ pc = "Present"
  /\ result = "VK_SUBOPTIMAL_KHR"
  /\ ops = <<"wait_frame", "acquire", "wait_image", "associate", "reset",
             "submit">>


\* C27: no semaphore is signaled while an earlier signal of it has not been
\* waited on, and none is waited on without a signal: the acquire finds the
\* slot's image-ready semaphore unsignaled, the submit finds it signaled
\* and the slot's render-complete semaphore unsignaled, and the present
\* finds the render-complete semaphore signaled.
C27_SemaphorePairing ==
  /\ pc = "vkAcquireNextImageKHR" =>
       ~image_ready_semaphores_[current_frame_ + 1]
  /\ pc = "vkQueueSubmit" =>
       /\ image_ready_semaphores_[current_frame_ + 1]
       /\ ~render_complete_semaphores_[current_frame_ + 1]
  /\ pc = "vkQueuePresentKHR" =>
       render_complete_semaphores_[current_frame_ + 1]


\* C29: when DrawFrame calls vkQueueSubmit the command buffers have been
\* recorded since the last build or rebuild of the swap chain and every
\* object group they reference exists; the groups stay in existence and the
\* recording stays in place while a submission is pending; and no command
\* buffer is recorded or freed while a submission is pending.
C29_SubmittedCommandBuffersValid ==
  LET referenced ==
        {"Device", "CommandPool", "VertexBuffers", "SwapChain",
         "SwapChainImageViews", "ScenePassResources", "ShadowPassResources",
         "DescriptorSets", "CommandBuffers"}
  IN  /\ pc = "Submit" => (recorded /\ referenced \subseteq live)
      /\ gpu_pending # <<>> => (recorded /\ referenced \subseteq live)
      /\ pc \in {"DestroyCommandBuffers", "CreateCommandBuffers",
                 "RecordCommandBuffers"} => gpu_pending = <<>>


\* C37: a face of three or four indices one of which names no declared
\* vertex (0, or a positive index greater than the number of vertices
\* declared so far) makes LoadModel return false, and no read is ever made
\* outside the declared vertex list.
C37_UndeclaredVertexFails ==
  /\ pc # "undefined"
  /\ (next_line > 1 /\ file[next_line - 1].kind = "f"
        /\ Len(file[next_line - 1].idx) \in {3, 4}
        /\ \E k \in 1..Len(file[next_line - 1].idx) :
             \/ file[next_line - 1].idx[k] = 0
             \/ file[next_line - 1].idx[k] > top_pos_idx)
       => (pc = "LoadModelReturned" /\ load_ret = "false")


\* C39: in every model loaded successfully the k-th entry of index_buffer
\* (counting from 0) is k, however many vertices were emitted: the index
\* counter never wraps around.
C39_IndexBufferIsIdentity ==
  (pc = "LoadModelReturned" /\ load_ret = "true") =>
    /\ Len(model.index_buffer) = Len(model.positions)
    /\ \A k \in 1..Len(model.index_buffer) : model.index_buffer[k] = k - 1


C36_MaterialIndicesValid ==
  /\ (pc = "LoadModelReturned" /\ load_ret = "true") =>
       \A k \in 1..Len(out_model.material_indices) :
         /\ 0 <= out_model.material_indices[k]
         /\ out_model.material_indices[k] < Len(out_model.materials)
  /\ (next_line > 1 /\ file[next_line - 1].kind = "usemtl"
        /\ \A i \in 1..Len(materials) :
             materials[i] # file[next_line - 1].name)
       => (pc = "LoadModelReturned" /\ load_ret = "false")


\* C31: whenever DrawFrame is about to run (after Init and after every
\* recreation that returned true), the swap-chain image views, the scene
\* framebuffers, the shadow frame resources, the command buffers, the
\* descriptor sets, the vertex and fragment uniform buffers and the
\* image-to-fence table all have exactly as many elements as the swap chain
\* has images, and every entry of the table is VK_NULL_HANDLE or one of the
\* three frame slots.
C31_VectorsMatchImageCount ==
  pc = "DrawFrame" =>
    /\ \A v \in {"swap_chain_image_views_", "swap_chain_framebuffers_",
                 "shadow_frame_resources_", "command_buffers_",
                 "descriptor_sets_", "vert_ubo_buffers_",
                 "frag_ubo_buffers_"} :
         ret.sizes[v] = ret.sizes["swap_chain_images_"]
    /\ Len(ret.image_rendered_fences_) = ret.sizes["swap_chain_images_"]
    /\ \A i \in 1..Len(ret.image_rendered_fences_) :
         ret.image_rendered_fences_[i] \in {-1, 0, 1, 2}

\* C31 witness: a recreation that went from more images to fewer has
\* returned true, and the table still holds a recorded fence.
C31_Witness ==
  /\ pc = "DrawFrame"
  /\ caller = "recreate"
  /\ ret.sizes["swap_chain_images_"] < args.previous_images
  /\ \E i \in 1..Len(ret.image_rendered_fences_) :
       ret.image_rendered_fences_[i] # -1


C34_ObjectCountsRestored ==
  /\ (pc = "DrawFrame" /\ ret.images = args.init_images) =>
       /\ ret.counts = args.after_init
       /\ ret.counts["VkSwapchainKHR"] = 1
       /\ ret.counts["VkFramebuffer"] = 7 * ret.images
       /\ ret.counts["VkImageView"] = 8 * ret.images + 2
       /\ ret.counts["VkBuffer"] = 2 * ret.images + 4
       /\ ret.counts["VkDeviceMemory"] = 3 * ret.images + 6
       /\ ret.counts["VkPipeline"] = 2
       /\ ret.counts["VkSampler"] = 1
  /\ pc \notin {"InitReturnedFalse", "RecreateReturnedFalse", "undefined"} =>
       ret.counts["VkShaderModule"] = 0

\* C34 witness: a recreation that kept the image count at 3 has returned
\* true.
C34_Witness ==
  /\ pc = "DrawFrame"
  /\ caller = "recreate"
  /\ ret.images = 3
  /\ args.init_images = 3
  /\ ret.counts["VkFramebuffer"] = 21


\* C32: once the resize callback has set framebuffer_resized_, the frame
\* loop, for as long as it runs, goes on to call RecreateSwapChain (or waits
\* in it for a nonzero framebuffer size); the flag stays set until the
\* present path clears it, a present reached with the flag set always calls
\* RecreateSwapChain, and a recreation on the acquire path leaves the flag
\* set for the next present.
C32_ResizeLeadsToRecreation ==
  /\ framebuffer_resized_ ~>
       (pc \in {"RecreateSwapChain", "RecreateSizeLoop", "MainLoopWaitIdle",
                "Destroy", "done", "undefined"})
  /\ [][ /\ (framebuffer_resized_ /\ ~framebuffer_resized_') =>
              (pc = "Present" /\ pc' = "RecreateSwapChain")
         /\ (framebuffer_resized_ /\ pc = "Present" /\ pc' # pc) =>
              pc' \in {"RecreateSwapChain", "undefined"} ]_vars

\* C32 witness: the acquire path calls RecreateSwapChain while the resize
\* flag is set.
C32_Witness ==
  /\ pc = "RecreateSwapChain"
  /\ caller = "acquire"
  /\ framebuffer_resized_

\* C33: every wait of DrawFrame on a fence returns: the loop never stays at
\* the wait for the slot's fence or at the wait for the fence recorded for
\* the acquired image.
C33_FenceWaitsReturn ==
  (pc \in {"WaitFrameReady", "WaitImageRendered"}) ~>
    (pc \notin {"WaitFrameReady", "WaitImageRendered"})

\* C33 witness: DrawFrame is at the wait for its slot's fence, the fence is
\* unsignaled and the submission that will signal it is the oldest of three
\* pending ones.
C33_Witness ==
  /\ pc = "WaitFrameReady"
  /\ ~frame_ready_fences_[current_frame_]
  /\ Len(gpu_pending) = 3
  /\ gpu_pending[1].fence = current_frame_

====
